---- MODULE Spec2Model ----
(***************************************************************************)
(* Model of the divination service of AI-Liuren-Web                        *)
(* (src/functions/divination.js): the GanZhi calendar engine (lunar date,  *)
(* solar terms, the four pillars), generateHexagram, and the request       *)
(* handler onRequestPost with its SSE branch; and of its surroundings: the *)
(* service worker's cache (public/service-worker.js), the SSE response     *)
(* with a title (worker.js, src/index.js) and the page with its history    *)
(* store (static/assets/js/app.js, history.js).                            *)
(*                                                                         *)
(* Conventions.                                                            *)
(*  - A civil instant is [dn, hour]: dn is the number of whole days from   *)
(*    1901-01-01 (negative before it), hour the wall-clock hour.  The      *)
(*    runtime is a fixed-offset (UTC) environment, so dateDiff() is dn.    *)
(*  - A JavaScript string built from GAN/ZHI is a record of names; a       *)
(*    lookup outside the array gives "undefined", as in JavaScript, and    *)
(*    the sum of two such lookups is the number NaN, not a string.         *)
(*  - Names are pinyin: GAN jia..gui, ZHI zi..hai, the 24 terms            *)
(*    xiaohan..dongzhi, the six words daan..kongwang.                      *)
(*  - A real number is <<whole, e5, sub>>: whole days, e5 units of 1e-5    *)
(*    day (0..99999) and sub units of 1e-10/27 day (0..2699999); every     *)
(*    constant of the Julian-day formulas is exact in this form.           *)
(***************************************************************************)
EXTENDS Integers, Sequences, FiniteSets, TLC

\* ------------------------------------------------------------------------
\* JavaScript arithmetic
\* ------------------------------------------------------------------------

\* a % n of JavaScript: the remainder has the sign of the dividend.
JsMod(a, n) == IF a >= 0 THEN a % n ELSE 0 - ((0 - a) % n)

\* Math.floor(a / n) for integers a and n > 0.
FloorDiv(a, n) == a \div n

\* 1 << k for 0 <= k <= 16.
Pow2Table == <<1, 2, 4, 8, 16, 32, 64, 128, 256, 512, 1024, 2048, 4096, 8192,
               16384, 32768, 65536>>

Pow2(k) == Pow2Table[k + 1]

\* (x & (1 << k)) # 0 for x >= 0 and 0 <= k.
BitSet(x, k) == (x \div Pow2(k)) % 2 = 1

\* ------------------------------------------------------------------------
\* Constants of the calendar engine
\* ------------------------------------------------------------------------

UNDEF == "undefined"

GAN == <<"jia", "yi", "bing", "ding", "wu4", "ji", "geng", "xin", "ren", "gui">>

ZHI == <<"zi", "chou", "yin", "mao", "chen", "si", "wu3", "wei", "shen", "you",
         "xu", "hai">>

\* GAN[i] / ZHI[i] with a 0-based index; out of the array it is undefined.
GanAt(i) == IF i \in 0..9 THEN GAN[i + 1] ELSE UNDEF

ZhiAt(i) == IF i \in 0..11 THEN ZHI[i + 1] ELSE UNDEF

\* GAN.indexOf(s), ganStr.indexOf(s): -1 when s is no stem.
GanIndexOf(s) == IF \E i \in 0..9 : GAN[i + 1] = s
                 THEN CHOOSE i \in 0..9 : GAN[i + 1] = s
                 ELSE 0 - 1

\* ZHI.indexOf(s).
ZhiIndexOf(s) == IF \E i \in 0..11 : ZHI[i + 1] = s
                 THEN CHOOSE i \in 0..11 : ZHI[i + 1] = s
                 ELSE 0 - 1

gLunarMonthDay == <<
  19168, 42352, 21096, 53856, 55632, 27304, 22176, 39632, 19176, 19168,
  42200, 42192, 53840, 54600, 46416, 22176, 38608, 38320, 18872, 18864,
  42160, 45656, 27216, 27968, 44456, 11104, 38256, 18808, 18800, 25776,
  54432, 59984, 27976, 23248, 11104, 37744, 37600, 51560, 51536, 54432,
  55888, 46416, 22176, 43736, 9680, 37584, 51544, 43344, 46248, 27808,
  46416, 21928, 19872, 42416, 21176, 21168, 43344, 59728, 27296, 44368,
  43856, 19296, 42352, 42352, 21088, 59696, 55632, 23208, 22176, 38608,
  19176, 19152, 42192, 53864, 53840, 54568, 46400, 46752, 38608, 38320,
  18864, 42168, 42160, 45656, 27216, 27968, 44448, 43872, 37744, 18808,
  18800, 25776, 27216, 59984, 27432, 23232, 43872, 37736, 37600, 51552,
  54440, 54432, 55888, 23208, 22176, 43736, 9680, 37584, 51544, 43344,
  46240, 46416, 46416, 21928, 19360, 42416, 21176, 21168, 43312, 29864,
  27296, 44368, 19880, 19296, 38256, 42208, 53856, 59696, 54576, 23200,
  27472, 38608, 19176, 19152, 42192, 53848, 53840, 54560, 55968, 46496,
  22224, 19160, 18864, 42168, 42160, 43600, 46376, 27936, 44448, 21936 >>

gLunarMonth == <<
  0, 80, 4, 0, 32,
  96, 5, 0, 32, 112,
  5, 0, 64, 2, 6,
  0, 80, 3, 7, 0,
  96, 4, 0, 32, 112,
  5, 0, 48, 128, 6,
  0, 64, 3, 7, 0,
  80, 4, 8, 0, 96,
  4, 10, 0, 96, 5,
  0, 48, 128, 5, 0,
  64, 2, 7, 0, 80,
  4, 9, 0, 96, 4,
  0, 32, 96, 5, 0,
  48, 176, 6, 0, 80,
  2, 7, 0, 80, 3 >>

START_YEAR == 1901

\* this.jie: the 24 solar terms in order, 0 = xiaohan.
jie == <<"xiaohan", "dahan", "lichun", "yushui", "jingzhe", "chunfen",
         "qingming", "guyu", "lixia", "xiaoman", "mangzhong", "xiazhi",
         "xiaoshu", "dashu", "liqiu", "chushu", "bailu", "qiufen",
         "hanlu", "shuangjiang", "lidong", "xiaoxue", "daxue", "dongzhi">>

\* this.jieQiOdd: the twelve terms that start a sexagenary month.
jieQiOdd == {"lichun", "jingzhe", "qingming", "lixia", "mangzhong", "xiaoshu",
             "liqiu", "bailu", "hanlu", "lidong", "daxue", "xiaohan"}

\* this.jieQiMonth: term -> [month index, branch].
jieQiMonth == [t \in jieQiOdd |->
  CASE t = "lichun"    -> <<0, "yin">>
    [] t = "jingzhe"   -> <<1, "mao">>
    [] t = "qingming"  -> <<2, "chen">>
    [] t = "lixia"     -> <<3, "si">>
    [] t = "mangzhong" -> <<4, "wu3">>
    [] t = "xiaoshu"   -> <<5, "wei">>
    [] t = "liqiu"     -> <<6, "shen">>
    [] t = "bailu"     -> <<7, "you">>
    [] t = "hanlu"     -> <<8, "xu">>
    [] t = "lidong"    -> <<9, "hai">>
    [] t = "daxue"     -> <<10, "zi">>
    [] t = "xiaohan"   -> <<11, "chou">>]

\* sStAccInfo in tenths of a second (the source gives seconds to one decimal).
sStAccInfo == <<
  0, 12724944, 25480206, 38301438, 51202266, 64208658,
  77320188, 90552726, 103889580, 117330654, 130842924, 144415920,
  158005608, 171593472, 185137662, 198620022, 212010054, 225296598,
  238468452, 251526060, 264476874, 277334514, 290119212, 302854776 >>

\* ------------------------------------------------------------------------
\* Date fields of an instant (Date#getFullYear / getMonth()+1 / getDate)
\* ------------------------------------------------------------------------

\* Days from 0000-03-01 to 1901-01-01, the origin of dn (new Date(1901, 0, 1)).
EpochShift == 694266

\* The proleptic Gregorian date <<year, month 1..12, day>> of day number dn.
\* The date is computed in years that start on 1 March: from the month mp
\* counted from March (0..11) and the day doy of such a year yy, ...
CivilOfMarchMonth(yy, doy, mp) ==
  << yy + (IF mp < 10 THEN 0 ELSE 1),
     IF mp < 10 THEN mp + 3 ELSE mp - 9,
     doy - (153 * mp + 2) \div 5 + 1 >>

\* ... from the day doy (0..365) of the year yy, ...
CivilOfYearDay(yy, doy) == CivilOfMarchMonth(yy, doy, (5 * doy + 2) \div 153)

\* ... from the year yoe (0..399) of the 400-year era and the day doe of the
\* era, ...
CivilOfEraYear(era, doe, yoe) ==
  CivilOfYearDay(yoe + era * 400,
                 doe - (365 * yoe + yoe \div 4 - yoe \div 100))

\* ... and from the day doe (0..146096) of the era.
CivilOfEraDay(era, doe) ==
  CivilOfEraYear(era, doe,
                 (doe - doe \div 1460 + doe \div 36524 - doe \div 146096) \div 365)

CivilFromDays(dn) ==
  CivilOfEraDay((dn + EpochShift) \div 146097, (dn + EpochShift) % 146097)

\* dateDiff(): whole days between localtime and 1901-01-01.
dateDiff(t) == t.dn

\* ------------------------------------------------------------------------
\* Lunar table accessors
\* ------------------------------------------------------------------------

\* table[i] used in a bit operation: an index outside the array reads
\* undefined, which & and >> treat as 0.
TabAt(table, i) == IF i \in 0..(Len(table) - 1) THEN table[i + 1] ELSE 0

\* "flag & 0x0f" for an odd offset from START_YEAR, "flag >> 4" for an even one.
LeapMonthOfFlag(flag, odd) == IF odd THEN flag % 16 ELSE flag \div 16

getLeapMonth(lunarYear) ==
  LeapMonthOfFlag(TabAt(gLunarMonth, FloorDiv(lunarYear - START_YEAR, 2)),
                  JsMod(lunarYear - START_YEAR, 2) # 0)

\* lunarMonthDays: <<leap-month days (high), ordinary-month days (low)>>.
\* The days read from the year's word of gLunarMonthDay at bit iBit, and at
\* bit iBit - 1 for the leap month.
MonthDaysOfWord(word, isLeap, iBit) ==
  << IF isLeap THEN (IF BitSet(word, iBit - 1) THEN 30 ELSE 29) ELSE 0,
     IF BitSet(word, iBit) THEN 30 ELSE 29 >>

\* A faulty lunarMonthDays: "iBit -= 1" after the leap month left out.
MonthDaysOfLeapSameBit(lunarYear, lunarMonth, leap) ==
  MonthDaysOfWord(TabAt(gLunarMonthDay, lunarYear - START_YEAR),
                  lunarMonth = leap,
                  16 - lunarMonth)

\* lunarMonthDays once the year's leap month is known.
MonthDaysOfLeap(lunarYear, lunarMonth, leap) ==
  MonthDaysOfWord(TabAt(gLunarMonthDay, lunarYear - START_YEAR),
                  lunarMonth = leap,
                  IF lunarMonth > leap /\ leap # 0
                  THEN 16 - lunarMonth - 1
                  ELSE 16 - lunarMonth)

lunarMonthDays(lunarYear, lunarMonth) ==
  IF lunarYear < START_YEAR
  THEN <<0, 30>>
  ELSE MonthDaysOfLeap(lunarYear, lunarMonth, getLeapMonth(lunarYear))

\* A faulty lunarYearDays: "days += low" alone, the leap month left out.
LowPartOnly(md) == md[2]

\* "days += high; days += low" of lunarYearDays.
BothParts(md) == md[1] + md[2]

\* A faulty loop "for (let i = 2; i <= 12; i++)": the first month left out.
RECURSIVE SumMonthDaysFromSecond(_, _)
SumMonthDaysFromSecond(year, i) ==
  IF i > 12
  THEN 0
  ELSE (IF i = 1 THEN 0 ELSE BothParts(lunarMonthDays(year, i)))
       + SumMonthDaysFromSecond(year, i + 1)

\* The loop "for (let i = 1; i <= 12; i++)" of lunarYearDays from month i on.
RECURSIVE SumMonthDays(_, _)
SumMonthDays(year, i) ==
  IF i > 12
  THEN 0
  ELSE BothParts(lunarMonthDays(year, i)) + SumMonthDays(year, i + 1)

\* lunarYearDays is pure: its values for the years of the table and the
\* MemoYearsAfter years that follow are computed once and kept.
MemoYearsAfter == 4

\* YearDaysMemo[y] is the value of lunarYearDays(y).
YearDaysMemo ==
  [y \in START_YEAR..(START_YEAR + Len(gLunarMonthDay) - 1 + MemoYearsAfter)
     |-> SumMonthDays(y, 1)]

lunarYearDays(year) ==
  IF year >= START_YEAR /\ year < START_YEAR + Len(gLunarMonthDay) + MemoYearsAfter
  THEN YearDaysMemo[year]
  ELSE SumMonthDays(year, 1)

\* ------------------------------------------------------------------------
\* lnDate: the lunar date <<year, month, day>> of an instant
\* ------------------------------------------------------------------------

\* "while (deltaDays >= tmp)" on the loop state w = <<remaining days, lunar
\* year, steps taken>>.  The loop is run in blocks of WalkBlock iterations,
\* which only bounds the depth of evaluation.
WalkBlock == 16

YearWalkDone(w) == w[1] < lunarYearDays(w[2])

RECURSIVE YearWalkSome(_, _)
YearWalkSome(w, n) ==
  IF n = 0 \/ YearWalkDone(w)
  THEN w
  ELSE YearWalkSome(<<w[1] - lunarYearDays(w[2]), w[2] + 1, w[3] + 1>>, n - 1)

RECURSIVE YearWalkFrom(_)
YearWalkFrom(w) ==
  IF YearWalkDone(w)
  THEN w
  ELSE YearWalkFrom(YearWalkSome(w, WalkBlock))

YearWalk(deltaDays, year, steps) == YearWalkFrom(<<deltaDays, year, steps>>)

\* A faulty lnDate: the days before lunar 1901 all counted in month 11.
FirstDaysInMonth11(deltaDays) == <<START_YEAR - 1, 11, 11 + deltaDays>>

\* "if (deltaDays < 49)": the date in lunar year 1900.
FirstDays(deltaDays) ==
  IF deltaDays < 19
  THEN <<START_YEAR - 1, 11, 11 + deltaDays>>
  ELSE <<START_YEAR - 1, 12, deltaDays - 18>>

\* "while (deltaDays >= tmp2)": the lunar date, <<0, 0, 0>> from the early
\* return inside the leap month.
RECURSIVE MonthWalk(_, _, _)
MonthWalk(deltaDays, year, month) ==
  LET tmp2 == lunarMonthDays(year, month)[2]
  IN  IF deltaDays >= tmp2
      THEN LET rest == deltaDays - tmp2
           IN  IF month = getLeapMonth(year)
               THEN LET leapDays == lunarMonthDays(year, month)[1]
                    IN  IF rest < leapDays
                        THEN <<0, 0, 0>>
                        ELSE MonthWalk(rest - leapDays, year, month + 1)
               ELSE MonthWalk(rest, year, month + 1)
      ELSE <<year, month, 1 + deltaDays>>

\* The month loop started from what the year loop left: month 1 of its year.
MonthWalkOf(w) == MonthWalk(w[1], w[2], 1)

lnDate(t) ==
  LET deltaDays == dateDiff(t)
  IN  IF deltaDays < 49
      THEN FirstDays(deltaDays)
      ELSE MonthWalkOf(YearWalk(deltaDays - 49, START_YEAR, 0))

lnYear(t) == lnDate(t)[1]

lnMonth(t) == lnDate(t)[2]

\* ------------------------------------------------------------------------
\* Julian days and solar terms
\* ------------------------------------------------------------------------

E5 == 100000

SubPerE5 == 2700000

\* The real w + h/1e5 + s/(27e10) in normal form.
RealNorm(w, h, s) ==
  LET h2 == h + s \div SubPerE5
  IN  <<w + h2 \div E5, h2 % E5, s % SubPerE5>>

RealSub(a, b) == RealNorm(a[1] - b[1], a[2] - b[2], a[3] - b[3])

\* A faulty window: "delta >= -1 && delta < 1".
WithinOneDay(delta) == delta[1] = 0 \/ delta[1] = 0 - 1

\* "delta >= -0.5 && delta <= 0.5" for a real in normal form.
WithinHalfDay(delta) ==
  /\ \/ delta[1] >= 0
     \/ delta[1] = 0 - 1 /\ delta[2] >= 50000
  /\ \/ delta[1] < 0
     \/ delta[1] = 0 /\ delta[2] < 50000
     \/ delta[1] = 0 /\ delta[2] = 50000 /\ delta[3] = 0

\* "Math.abs(a - b) <= 0.5": whole parts two or more days apart settle it
\* whatever the fractions are.
AbsDiffLeHalf(a, b) ==
  IF a[1] - b[1] > 1 \/ b[1] - a[1] > 1
  THEN FALSE
  ELSE WithinHalfDay(RealSub(a, b))

\* rulianDay(dt) for the date <<year, month, day>>; julianDay() is the same
\* formula on localtime.  dd = day + 0.5000115740, and
\* floor(365.25*(year+4716)+0.01) + floor(30.60001*(month+1)) + dd + B - 1524.5.
rulianDay(dt) ==
  LET month == IF dt[2] <= 2 THEN dt[2] + 12 ELSE dt[2]
      year  == IF dt[2] <= 2 THEN dt[1] - 1 ELSE dt[1]
      B     == 2 - FloorDiv(year, 100) + FloorDiv(year, 400)
  IN  RealNorm(FloorDiv(36525 * (year + 4716) + 1, 100)
                 + FloorDiv(3060001 * (month + 1), 100000)
                 + dt[3] + B - 1524,
               1, 15740 * 27)

julianDay(t) == rulianDay(CivilFromDays(t.dn))

\* julianDayOfLnJie(year, st) = 2415025.5868055555
\*                              + 365.24219878*(year-1900) + sStAccInfo[st]/86400.
julianDayOfLnJie(year, st) ==
  IF st < 0 \/ st > 24
  THEN <<0, 0, 0>>
  ELSE
    LET n    == year - 1900
        acc  == sStAccInfo[st + 1]
        r    == acc % 864000
        r25  == r * 25
    IN  RealNorm(2415025 + 365 * n + acc \div 864000,
                 58680 + 24219 * n + r25 \div 216,
                 27 * (55555 + 87800 * n) + (r25 % 216) * 12500)

\* julianDayOfLnJie is pure: its values for the Gregorian years of the table,
\* the year before and the year after are computed once and kept.
JieMemo ==
  [y \in (START_YEAR - 1)..(START_YEAR + Len(gLunarMonthDay))
     |-> [st \in 0..23 |-> julianDayOfLnJie(y, st)]]

JieJulianDay(year, st) ==
  IF year >= START_YEAR - 1 /\ year <= START_YEAR + Len(gLunarMonthDay) /\ st \in 0..23
  THEN JieMemo[year][st]
  ELSE julianDayOfLnJie(year, st)

\* The loop "for (let i = 0; i < 24; i++)" of lnJie / nlJie from index i on:
\* the index of the first term within half a day of jd, -1 when none.
RECURSIVE FirstJie(_, _, _)
FirstJie(jd, year, i) ==
  IF i >= 24
  THEN 0 - 1
  ELSE IF AbsDiffLeHalf(jd, JieJulianDay(year, i))
       THEN i
       ELSE FirstJie(jd, year, i + 1)

\* this.jie.slice(i * 2, (i + 1) * 2), and '' when the loop found nothing.
JieName(i) == IF i \in 0..23 THEN jie[i + 1] ELSE ""

\* nlJie(dt) for the date dt = <<year, month, day>>.
nlJie(dt) == JieName(FirstJie(rulianDay(dt), dt[1], 0))

\* lnJie(): the term of localtime's own date.
lnJie(t) ==
  LET dt == CivilFromDays(t.dn)
  IN  JieName(FirstJie(julianDay(t), dt[1], 0))

\* ------------------------------------------------------------------------
\* The four pillars (class GanZhi)
\* ------------------------------------------------------------------------

\* The number NaN, which is what undefined + undefined evaluates to.  A
\* template literal prints it as "NaN", JSON.stringify as null.
NaN == [number |-> "NaN"]

\* GAN[G] + ZHI[Z]: the concatenation when at least one lookup is a string
\* ("undefined" then stands for the missing one), NaN when both miss.
Pillar(G, Z) ==
  IF G \notin 0..9 /\ Z \notin 0..11
  THEN NaN
  ELSE [gan |-> GanAt(G), zhi |-> ZhiAt(Z)]

\* The empty string "" of a new instance's gzYearValue.
EmptyStr == [gan |-> "", zhi |-> ""]

\* "nlYear[0]": the first character of a string; the empty string has none,
\* a number has no property 0, and both give undefined.
CharAt0(v) == IF v = NaN \/ v = EmptyStr THEN UNDEF ELSE v.gan

\* The pillar of a pair of indices <<G, Z>>.
PillarAt(ix) == Pillar(ix[1], ix[2])

\* The indices G and Z that gzYear() looks up.
\* "const year = this.lnYear() - 3 - 1; G = year % 10; Z = year % 12".
YearIndexOf(lnYearValue) ==
  LET year == lnYearValue - 3 - 1
  IN  <<JsMod(year, 10), JsMod(year, 12)>>

gzYearIndex(t) == YearIndexOf(lnYear(t))

\* gzYear(): the returned value, a string or NaN; the caller stores it in
\* gzYearValue.
gzYear(t) == PillarAt(gzYearIndex(t))

\* "const year = this.lnYear() - 3; G = year % 10; Z = year % 12" of gzMonth.
RolledYearIndex(lnYearValue) ==
  LET year == lnYearValue - 3
  IN  <<JsMod(year, 10), JsMod(year, 12)>>

\* A faulty gzMonth: the year is not advanced after lichun.
RolledYearBy4(t) == PillarAt(YearIndexOf(lnYear(t)))

\* "const year = this.lnYear() - 3" of gzMonth: the pillar of the next year.
RolledYear(t) == PillarAt(RolledYearIndex(lnYear(t)))

IsOddJie(name) == name # "" /\ name \in jieQiOdd

\* Days before 1901-01-01 and after 2050-12-31 that are also requested.
PreDays == 366

PostDays == 366

\* Day number of 2050-12-31: 150 years of 365 days and 37 leap days from
\* 1901-01-01 to 2051-01-01.
LastDay == Len(gLunarMonthDay) * 365 + 37 - 1

\* nlJie reads nothing but the tables and the date: its values for the
\* requested days and the 40 days gzMonth looks back from the first of them
\* are computed once and kept, in blocks of MemoBlock days numbered from 0.
MemoBlock == 64

MemoShift == PreDays + 40

MemoLast == LastDay + PostDays + MemoShift

Memoized(dn) == dn + MemoShift >= 0 /\ dn + MemoShift <= MemoLast

NlJieMemo ==
  [b \in 0..(MemoLast \div MemoBlock) |->
     [o \in 0..(MemoBlock - 1) |->
        nlJie(CivilFromDays(b * MemoBlock + o - MemoShift))]]

\* nlJie(varDays) for the day dn.
nlJieOfDay(dn) ==
  IF Memoized(dn)
  THEN NlJieMemo[(dn + MemoShift) \div MemoBlock][(dn + MemoShift) % MemoBlock]
  ELSE nlJie(CivilFromDays(dn))

\* A faulty loop "for (let i = -1; i >= -20; i--)": half the days.
RECURSIVE BackScanShort(_, _)
BackScanShort(t, i) ==
  IF i < 0 - 20
  THEN <<"", 0 - i - 1>>
  ELSE LET jieQiCheck == nlJieOfDay(t.dn + i)
       IN  IF IsOddJie(jieQiCheck)
           THEN <<jieQiCheck, 0 - i>>
           ELSE BackScanShort(t, i - 1)

\* The loop "for (let i = -1; i >= -40; i--)" of gzMonth from offset i on:
\* <<name of the first odd term met ("" when the loop runs out), days examined>>.
RECURSIVE BackScan(_, _)
BackScan(t, i) ==
  IF i < 0 - 40
  THEN <<"", 0 - i - 1>>
  ELSE LET jieQiCheck == nlJieOfDay(t.dn + i)
       IN  IF IsOddJie(jieQiCheck)
           THEN <<jieQiCheck, 0 - i>>
           ELSE BackScan(t, i - 1)

\* The first half of gzMonth: <<nlYear, nlMonth, jieQi, the odd term that
\* set the month ("" when none was found)>>.
\* jieQi and nlMonthVal are the values of lnJie() and lnMonth(), rolled the
\* pillar of "this.lnYear() - 3", jieQiCheck the term the loop back stops at;
\* the last two are read only on the paths of the code that compute them.
gzMonthBasisOf(gzYearValue, jieQi, nlMonthVal, rolled, jieQiCheck) ==
  IF IsOddJie(jieQi)
  THEN IF jieQiMonth[jieQi][1] = 0 /\ nlMonthVal = 12
       THEN <<rolled, 0, jieQi, jieQi>>
       ELSE <<gzYearValue, jieQiMonth[jieQi][1], jieQi, jieQi>>
  ELSE IF jieQiCheck = ""
       THEN <<gzYearValue, 0, jieQi, "">>
       ELSE IF jieQiMonth[jieQiCheck][1] > 0
            THEN <<gzYearValue, jieQiMonth[jieQiCheck][1], jieQi, jieQiCheck>>
            ELSE IF nlMonthVal = 12
                 THEN <<rolled, 0, jieQi, jieQiCheck>>
                 ELSE <<gzYearValue, 0, jieQi, jieQiCheck>>

gzMonthBasis(t, gzYearValue) ==
  gzMonthBasisOf(gzYearValue, lnJie(t), lnMonth(t), RolledYear(t),
                 BackScan(t, 0 - 1)[1])

\* A faulty lookup: the cycle of branches started at zi instead of yin.
MonthZhiFromZi(nlMonth) == ZhiAt(nlMonth)

\* The branch of the entry of jieQiMonth whose month index is nlMonth.
MonthZhi(nlMonth) ==
  IF \E n \in jieQiOdd : jieQiMonth[n][1] = nlMonth
  THEN jieQiMonth[CHOOSE n \in jieQiOdd : jieQiMonth[n][1] = nlMonth][2]
  ELSE "yin"

\* A faulty gzMonth: "ganStr.indexOf(nlYear[0]) * 2 + nlMonth + 1", the
\* index of the year stem not raised by one.
MonthStemNumUnshifted(nlYear, nlMonth) ==
  LET monthNum == GanIndexOf(CharAt0(nlYear)) * 2 + nlMonth + 1
      M        == JsMod(monthNum, 10)
  IN  IF M = 0 THEN 10 ELSE M

\* The stem number M (1..10) of gzMonth from nlYear and nlMonth.
MonthStemNum(nlYear, nlMonth) ==
  LET monthNum == (GanIndexOf(CharAt0(nlYear)) + 1) * 2 + nlMonth + 1
      M        == JsMod(monthNum, 10)
  IN  IF M = 0 THEN 10 ELSE M

\* gzMonth() on an instance whose cached year pillar is gzYearValue.
\* "GAN[M - 1] + monthZhi" for the nlYear and nlMonth of the first half.
MonthPillarOf(basis) ==
  [gan |-> GanAt(MonthStemNum(basis[1], basis[2]) - 1),
   zhi |-> MonthZhi(basis[2])]

gzMonth(t, gzYearValue) == MonthPillarOf(gzMonthBasis(t, gzYearValue))

\* A faulty gzDay: January and February are not counted as months 13 and 14
\* of the year before.
gzDayIndexOfUnadjusted(ct) ==
  LET C == FloorDiv(ct[1], 100)
      y == JsMod(ct[1], 100)
      M == ct[2]
      d == ct[3]
      i == IF JsMod(ct[2], 2) = 1 THEN 0 ELSE 6
      G == 4 * C + FloorDiv(C, 4) + 5 * y + FloorDiv(y, 4)
           + FloorDiv(3 * (M + 1), 5) + d - 3 - 1
      Z == 8 * C + FloorDiv(C, 4) + 5 * y + FloorDiv(y, 4)
           + FloorDiv(3 * (M + 1), 5) + d + 7 + i - 1
  IN  <<JsMod(G, 10), JsMod(Z, 12)>>

\* A faulty gzDay: i = 0 in the even months too.
gzDayIndexOfOddMonths(ct) ==
  LET C     == FloorDiv(ct[1], 100)
      early == ct[2] = 1 \/ ct[2] = 2
      y     == IF early THEN JsMod(ct[1], 100) - 1 ELSE JsMod(ct[1], 100)
      M     == IF early THEN ct[2] + 12 ELSE ct[2]
      d     == ct[3]
      G     == 4 * C + FloorDiv(C, 4) + 5 * y + FloorDiv(y, 4)
               + FloorDiv(3 * (M + 1), 5) + d - 3 - 1
      Z     == 8 * C + FloorDiv(C, 4) + 5 * y + FloorDiv(y, 4)
               + FloorDiv(3 * (M + 1), 5) + d + 7 - 1
  IN  <<JsMod(G, 10), JsMod(Z, 12)>>

\* The indices G and Z that gzDay() looks up.
gzDayIndexOf(ct) ==
  LET C     == FloorDiv(ct[1], 100)
      early == ct[2] = 1 \/ ct[2] = 2
      y     == IF early THEN JsMod(ct[1], 100) - 1 ELSE JsMod(ct[1], 100)
      M     == IF early THEN ct[2] + 12 ELSE ct[2]
      d     == ct[3]
      i     == IF JsMod(ct[2], 2) = 1 THEN 0 ELSE 6
      G     == 4 * C + FloorDiv(C, 4) + 5 * y + FloorDiv(y, 4)
               + FloorDiv(3 * (M + 1), 5) + d - 3 - 1
      Z     == 8 * C + FloorDiv(C, 4) + 5 * y + FloorDiv(y, 4)
               + FloorDiv(3 * (M + 1), 5) + d + 7 + i - 1
  IN  <<JsMod(G, 10), JsMod(Z, 12)>>

\* ct is localtime read as <<getFullYear(), getMonth() + 1, getDate()>>.
gzDayIndex(t) == gzDayIndexOf(CivilFromDays(t.dn))

gzDay(t) == PillarAt(gzDayIndex(t))

\* A faulty gzHour: Math.floor(hours / 2 + 0.1) % 12.
HourBranchFloor(hours) == JsMod(FloorDiv(5 * hours + 1, 10), 12)

\* Math.round(hours / 2 + 0.1) % 12: round(x) = floor(x + 0.5), x = (5h+1)/10.
HourBranch(hours) == JsMod(FloorDiv(5 * hours + 6, 10), 12)

\* A faulty gzHour: a remainder 0 of the day stem number is not replaced by 5.
gzHourIndexOfNoRemap(Z, gzDayNum) ==
  LET gzDayYu == JsMod(gzDayNum, 5)
      hourNum == Z + 1
      num     == JsMod(gzDayYu * 2 - 1 + hourNum - 1, 10)
  IN  <<IF num = 0 THEN 10 ELSE num, Z>>

\* The stem number (1..10) and the branch index that gzHour() looks up.
gzHourIndexOf(Z, gzDayNum) ==
  LET yu       == JsMod(gzDayNum, 5)
      gzDayYu  == IF yu = 0 THEN 5 ELSE yu
      hourNum  == Z + 1
      num      == JsMod(gzDayYu * 2 - 1 + hourNum - 1, 10)
  IN  <<IF num = 0 THEN 10 ELSE num, Z>>

gzHourIndex(t) ==
  gzHourIndexOf(HourBranch(t.hour), GanIndexOf(gzDay(t).gan) + 1)

\* "GAN[gzHourNum - 1] + ZHI[Z]".
HourPillarAt(ix) == Pillar(ix[1] - 1, ix[2])

gzHour(t) == HourPillarAt(gzHourIndex(t))

\* ------------------------------------------------------------------------
\* generateHexagram and the JSON values of the request body
\* ------------------------------------------------------------------------

\* A JSON value of the numbers array: a number, kept as twice its value so
\* that 1.5 is the integer 3, or null.
JsNumber(twice) == [t |-> "number", twice |-> twice]

JsNull == [t |-> "null", twice |-> 0]

\* ToNumber of a value, doubled: null converts to 0.
ToNumber2(v) == IF v.t = "number" THEN v.twice ELSE 0

\* numbers[i] as an operand of + and %: undefined past the end (NaN).
ItemAt(numbers, i) == IF i < Len(numbers) THEN numbers[i + 1] ELSE [t |-> "undefined", twice |-> 0]

IsNaNItem(v) == v.t = "undefined"

words == <<"daan", "liulian", "suxi", "chikou", "xiaoji", "kongwang">>

\* A faulty index: "x % 6" without "|| 6".
IndexNoRemap(twice, nan) == IF nan THEN 0 - 1 ELSE JsMod(twice, 12)

\* "x % 6 || 6" on a doubled operand: the doubled index; NaN and 0 give 6.
IndexOr6(twice, nan) ==
  IF nan \/ JsMod(twice, 12) = 0 THEN 12 ELSE JsMod(twice, 12)

\* words[index - 1] for a doubled index: undefined off the array.
WordAt(twice) ==
  IF twice % 2 = 0 /\ (twice \div 2) \in 1..6 THEN words[twice \div 2] ELSE UNDEF

\* generateHexagram(numbers): the three words of the returned string.
generateHexagram(numbers) ==
  LET a == ItemAt(numbers, 0)
      b == ItemAt(numbers, 1)
      c == ItemAt(numbers, 2)
      firstIndex  == IndexOr6(ToNumber2(a), IsNaNItem(a))
      secondIndex == IndexOr6(ToNumber2(a) + ToNumber2(b) - 2,
                              IsNaNItem(a) \/ IsNaNItem(b))
      thirdIndex  == IndexOr6(ToNumber2(a) + ToNumber2(b) + ToNumber2(c) - 4,
                              IsNaNItem(a) \/ IsNaNItem(b) \/ IsNaNItem(c))
  IN  <<WordAt(firstIndex), WordAt(secondIndex), WordAt(thirdIndex)>>

\* ------------------------------------------------------------------------
\* resolveClientTime
\* ------------------------------------------------------------------------

\* Day number of 1970-01-01, the origin of ts.
UnixEpochDay == 25202

MinutesPerDay == 1440

\* new Date(ms) read with getFullYear/getMonth/getDate/getHours, for a time
\* given in whole minutes since 1970-01-01T00:00Z.
DateOfMinutes(m) ==
  [dn   |-> FloorDiv(m, MinutesPerDay) + UnixEpochDay,
   hour |-> (m % MinutesPerDay) \div 60]

\* The inverse reading, used to build request bodies: ts / 60000.
MinutesOf(dn, hour) == (dn - UnixEpochDay) * MinutesPerDay + hour * 60

\* clientTime of a body: absent, ill-typed, or {ts, tz_offset} with ts a whole
\* number of minutes (tsMin = ts / 60000) and tz_offset in minutes.
NoClientTime == [kind |-> "absent", tsMin |-> 0, tz_offset |-> 0]

BadClientTime == [kind |-> "illtyped", tsMin |-> 0, tz_offset |-> 0]

ClientTime(tsMin, tz) == [kind |-> "ok", tsMin |-> tsMin, tz_offset |-> tz]

\* resolveClientTime(clientTime), serverNow being what new Date() returns.
resolveClientTime(clientTime, serverNow) ==
  IF clientTime.kind = "ok"
  THEN DateOfMinutes(clientTime.tsMin - clientTime.tz_offset)
  ELSE serverNow

\* ------------------------------------------------------------------------
\* Requests and the state of the handler (onRequestPost, streamDivination)
\* ------------------------------------------------------------------------

NReq == 2

Req == 1..NReq

\* A request: the Accept header, whether the body parses as JSON, and the
\* fields of the parsed body.  numbers is an array or some other value;
\* question is "undefined", "" or the non-empty string "q"; apiKey, endpoint
\* and model are present (truthy) or not.
Request(accept, json, isArray, items, question, apiKey, endpoint, model, clientTime) ==
  [accept |-> accept, json |-> json,
   numbers |-> [isArray |-> isArray, items |-> items],
   question |-> question,
   apiKey |-> apiKey, endpoint |-> endpoint, model |-> model,
   clientTime |-> clientTime]

NoRequest ==
  Request("none", FALSE, FALSE, <<>>, "undefined", FALSE, FALSE, FALSE, NoClientTime)

\* A faulty check: "!Array.isArray(numbers) || numbers.length !== 3" only.
PassesValidationNumbersOnly(q) ==
  /\ q.numbers.isArray
  /\ Len(q.numbers.items) = 3

\* "!Array.isArray(numbers) || numbers.length !== 3 || !question" is false.
PassesValidation(q) ==
  /\ q.numbers.isArray
  /\ Len(q.numbers.items) = 3
  /\ q.question \notin {"undefined", ""}

NoDate == [dn |-> 0, hour |-> 0]

NoInstance == [localtime |-> NoDate, gzYearValue |-> EmptyStr]

NoCalc == [lunar |-> <<0, 0, 0>>, jieQi |-> "", term |-> "", index |-> <<>>]

\* cancelled: the client has cancelled the body of a streamed response.
NoResponse == [status |-> 0, kind |-> "none", closed |-> FALSE, cancelled |-> FALSE]

\* ------------------------------------------------------------------------
\* The service worker of the page (public/service-worker.js)
\* ------------------------------------------------------------------------

\* The URLs of the model: one precached asset and two that are not.
ASSETS == {"/index.html"}

Urls == ASSETS \cup {"/icon-192.png", "/docs"}

NFetch == 2

FetchEvents == 1..NFetch

\* The status codes the network answers with.  An opaque or opaqueredirect
\* response has status 0.
Statuses == {200, 204, 206, 300, 404}

\* A Response: url is "" for an empty URL, location is "" without the header.
Response(status, type, redirected, url, location) ==
  [status |-> status, type |-> type, redirected |-> redirected,
   url |-> url, location |-> location]

\* What fetch(u) can resolve with: the response of u itself, 300 with a
\* Location header, the response of another URL after redirects were
\* followed, an opaque response and an opaqueredirect response.
NetworkResponses(u) ==
  { Response(st, "basic", FALSE, u, "") : st \in Statuses }
  \cup { Response(300, "basic", FALSE, u, l) : l \in Urls }
  \cup { Response(st, "basic", TRUE, v, "") : st \in {200, 204}, v \in Urls \ {u} }
  \cup { Response(0, "opaque", FALSE, "", ""),
         Response(0, "opaqueredirect", FALSE, "", "") }

\* "response.ok": the status is in the range 200-299.
Ok(response) == response.status >= 200 /\ response.status <= 299

\* needsRedirectFix(response).
needsRedirectFix(response) ==
  \/ response.redirected
  \/ (response.status >= 300 /\ response.status < 400)
  \/ response.type = "opaqueredirect"

\* resolveFinalUrl(response, fallback): the URLs of the model are absolute,
\* "" is null.
resolveFinalUrl(response, fallback) ==
  IF response.url # "" /\ response.url # fallback
  THEN response.url
  ELSE response.location

\* cache.put(request, response) rejects a response with status 206; the
\* rejection is swallowed by ".catch(() => {})".
PutResolves(response) == response.status # 206

\* An entry of the cache: the status of the stored response and who stored
\* it; NoEntry when the URL is not in the cache.
NoEntry == [status |-> 0, by |-> "none"]

NoServed == [status |-> 0, from |-> "none"]

\* A fetch event: put is the status of the response whose cache.put has been
\* started and has not settled, 0 when there is none.
NoFetch == [pc |-> "idle", method |-> "", url |-> "", finalUrl |-> "", served |-> NoServed,
            put |-> 0]

VARIABLES
  req,       \* req[r]: the request r as received
  pc,        \* pc[r]: where the handling of r stands
  running,   \* the request inside a synchronous stretch of code, 0 when none
  now,       \* now[r]: the Date that resolveClientTime returned
  gz,        \* gz[r]: the GanZhi instance most recently constructed for r
  calc,      \* calc[r]: values met while computing r's pillars
  fullBazi,  \* fullBazi[r]: the pillars computed so far
  hexagram,  \* hexagram[r]: the three words, <<>> before generateHexagram
  resp,      \* resp[r]: the Response returned for r
  events,    \* events[r]: the names of the SSE events written
  aiCalls,   \* aiCalls[r]: number of fetches sent to the AI endpoint
  cache,     \* cache[u]: what the service worker's cache holds for URL u
  fetchEv,   \* fetchEv[f]: the fetch event f in the page's service worker
  probe,     \* the last call of a table method of GanZhi made on its own
  sse,       \* the SSE response of worker.js and src/index.js: tasks and writer
  page       \* the page of static/assets/js/app.js with its history store

vars == <<req, pc, running, now, gz, calc, fullBazi, hexagram, resp, events, aiCalls,
          cache, fetchEv, probe, sse, page>>

\* The variables of the service worker in the browser.
worker == <<cache, fetchEv>>

\* The variables of the Pages function.
server == <<req, pc, running, now, gz, calc, fullBazi, hexagram, resp, events, aiCalls>>

\* The variable of a caller of GanZhi's table methods.
tables == <<probe>>

\* The variable of the SSE response with a title.
titled == <<sse>>

\* The variable of the page in the browser.
browser == <<page>>

\* What an action of the Pages function, and of the service worker, leaves
\* alone.
outsideServer == <<worker, tables, titled, browser>>

outsideWorker == <<server, tables, titled, browser>>

outsideTables == <<server, worker, titled, browser>>

outsideTitled == <<server, worker, tables, browser>>

outsideBrowser == <<server, worker, tables, titled>>

NoProbe == [fn |-> "", args |-> <<>>, out |-> <<>>]

\* No method of GanZhi has been called on its own.
InitTables == probe = NoProbe

\* streamDivination of worker.js or src/index.js has not been called.
NoSse == [variant |-> "", outer |-> "idle", main |-> "idle", title |-> "idle",
          closed |-> FALSE, cancelled |-> FALSE, unhandled |-> FALSE,
          log |-> <<>>, reads |-> <<0, 0>>]

InitTitled == sse = NoSse

\* updateStatusIcon(): "answerEl.innerHTML.trim() !== '' || currentChatId
\* !== null": with something in the answer area, or a record shown, the
\* status button starts a new chat and saving is switched on; without, the
\* button switches saving off or on.
updateStatusIcon(p) ==
  IF p.content \/ p.currentChatId # 0
  THEN [p EXCEPT !.action = "new", !.isSaveEnabled = TRUE]
  ELSE [p EXCEPT !.action = IF p.isSaveEnabled THEN "disable-save" ELSE "enable-save"]

\* An element of the history list: the record id it carries and the call of
\* renderHistory that made it.  A request to the database: add, get, getAll
\* or delete, with the record to add, the id, the element whose delete
\* button was clicked, and whether the keyword of the search is not empty.
NoEl == [id |-> 0, r |-> 0]

NoRecord == [id |-> 0, enabledAtSubmit |-> FALSE, outcome |-> "", errorEvent |-> FALSE,
             result |-> FALSE]

DbRequest(op, id, el, record, keyword) ==
  [op |-> op, id |-> id, el |-> el, record |-> record, keyword |-> keyword]

\* The page when init() has reached "await initDB()": the listeners are
\* bound, indexedDB.open has not settled, updateStatusIcon() has not run yet
\* (the status button has no data-action, written ""), the answer area is
\* empty, the panel closed, no divination under way, the store empty.
\* page.content: the answer area's innerHTML is not blank; page.loading: the
\* loading container is the only child of the answer area.
\* page.db: "opening", "open" or "failed"; the variable db of db.js is set
\* only in "open".
\* page.phase is the place of onSubmit: "idle", "fetch" or "read".
\* page.list holds the elements of the history list, page.timers those whose
\* removal is scheduled, page.renders counts the calls of renderHistory.
\* page.keyword: currentSearchKeyword is not empty; page.searchTimer: the
\* timer of handleSearchInput is pending.
\* page.queue holds the requests made to the database and not yet settled.
\* page.store holds a record [id, enabledAtSubmit, outcome, errorEvent,
\* result] for each saved divination, result telling that the saved result
\* is not empty; page.lastKey is the last key the object store has given.
\* 0 stands for the null of currentChatId.
InitPage ==
  page = [isSaveEnabled |-> TRUE, currentChatId |-> 0, content |-> FALSE,
          loading |-> FALSE, action |-> "", statusDisabled |-> FALSE,
          panelOpen |-> FALSE, list |-> {}, timers |-> {}, renders |-> 0,
          db |-> "opening", phase |-> "idle", aborted |-> FALSE, answer |-> FALSE,
          errorEvent |-> FALSE, enabledAtSubmit |-> TRUE, submits |-> 0,
          queue |-> <<>>, store |-> {}, lastKey |-> 0,
          keyword |-> FALSE, searchTimer |-> FALSE]

\* After install and activate: cache.addAll(ASSETS) has stored the assets.
InitWorker ==
  /\ cache = [u \in Urls |-> IF u \in ASSETS THEN [status |-> 200, by |-> "install"]
                             ELSE NoEntry]
  /\ fetchEv = [f \in FetchEvents |-> NoFetch]

Init ==
  /\ req = [r \in Req |-> NoRequest]
  /\ pc = [r \in Req |-> "idle"]
  /\ running = 0
  /\ now = [r \in Req |-> NoDate]
  /\ gz = [r \in Req |-> NoInstance]
  /\ calc = [r \in Req |-> NoCalc]
  /\ fullBazi = [r \in Req |-> <<>>]
  /\ hexagram = [r \in Req |-> <<>>]
  /\ resp = [r \in Req |-> NoResponse]
  /\ events = [r \in Req |-> <<>>]
  /\ aiCalls = [r \in Req |-> 0]
  /\ InitWorker
  /\ InitTables
  /\ InitTitled
  /\ InitPage

\* A faulty constructor: one instance kept for the whole module and handed to
\* every caller, whatever date it is given.
NewGanZhiShared(date) ==
  IF \E s \in Req : gz[s] # NoInstance
  THEN gz[CHOOSE s \in Req : gz[s] # NoInstance]
  ELSE [localtime |-> date, gzYearValue |-> EmptyStr]

\* constructor(date): the fields that change or differ between instances.
NewGanZhi(date) == [localtime |-> date, gzYearValue |-> EmptyStr]

\* JavaScript runs a handler to its next await before another one continues.
CanRun(r) == running = 0 \/ running = r

Reply(status, kind) ==
  [status |-> status, kind |-> kind, closed |-> TRUE, cancelled |-> FALSE]

\* The stream of r before writer.close(): new Response(readable, ...).
OpenStream == [status |-> 200, kind |-> "stream", closed |-> FALSE, cancelled |-> FALSE]

\* The client has cancelled the body of r's stream: the writable side is
\* errored, every write pending or made from now on rejects, and so does
\* writer.close().
Cancelled(r) == resp[r].kind = "stream" /\ resp[r].cancelled

\* onRequestPost up to its first computation: the body is parsed and checked;
\* a bad body is answered with 400, a good one with Accept: text/event-stream
\* gets its stream back at once while streamDivination's task goes on.
onRequestPostOf(r, q) ==
  /\ pc[r] = "idle"
  /\ running = 0
  /\ req' = [req EXCEPT ![r] = q]
  /\ IF ~q.json \/ ~PassesValidation(q)
     THEN /\ resp' = [resp EXCEPT ![r] = Reply(400, "text")]
          /\ pc' = [pc EXCEPT ![r] = "done"]
          /\ running' = 0
     ELSE /\ resp' = [resp EXCEPT ![r] =
                        IF q.accept = "text/event-stream"
                        THEN OpenStream
                        ELSE NoResponse]
          /\ pc' = [pc EXCEPT ![r] = "resolve"]
          /\ running' = r
  /\ UNCHANGED <<now, gz, calc, fullBazi, hexagram, events, aiCalls>>
  /\ UNCHANGED outsideServer

\* "const now = resolveClientTime(clientTime)".
ResolveNow(r, serverNow) ==
  /\ pc[r] = "resolve"
  /\ CanRun(r)
  /\ now' = [now EXCEPT ![r] = resolveClientTime(req[r].clientTime, serverNow)]
  /\ pc' = [pc EXCEPT ![r] = "year"]
  /\ UNCHANGED <<req, running, gz, calc, fullBazi, hexagram, resp, events, aiCalls>>
  /\ UNCHANGED outsideServer

\* getYearGanzhi(now): a new instance, gzYear() on it.
getYearGanzhi(r) ==
  /\ pc[r] = "year"
  /\ CanRun(r)
  /\ \E g \in {NewGanZhi(now[r])} : \E lunar \in {lnDate(g.localtime)} :
       LET ix == YearIndexOf(lunar[1])
           v  == Pillar(ix[1], ix[2])
       IN  /\ gz' = [gz EXCEPT ![r] = [g EXCEPT !.gzYearValue = v]]
           /\ calc' = [calc EXCEPT ![r].lunar = lunar, ![r].index = <<ix>>]
           /\ fullBazi' = [fullBazi EXCEPT ![r] = <<v>>]
  /\ pc' = [pc EXCEPT ![r] = "month"]
  /\ UNCHANGED <<req, running, now, hexagram, resp, events, aiCalls>>
  /\ UNCHANGED outsideServer

\* getMonthGanzhi(now), first half: a new instance, gzYear() on it.
getMonthGanzhiBegin(r) ==
  /\ pc[r] = "month"
  /\ CanRun(r)
  /\ \E g \in {NewGanZhi(now[r])} :
       gz' = [gz EXCEPT ![r] = [g EXCEPT !.gzYearValue = gzYear(g.localtime)]]
  /\ pc' = [pc EXCEPT ![r] = "gzMonth"]
  /\ UNCHANGED <<req, running, now, calc, fullBazi, hexagram, resp, events, aiCalls>>
  /\ UNCHANGED outsideServer

\* getMonthGanzhi(now), second half: gzMonth() on that instance.
getMonthGanzhiEnd(r) ==
  /\ pc[r] = "gzMonth"
  /\ CanRun(r)
  /\ \E basis \in {gzMonthBasis(gz[r].localtime, gz[r].gzYearValue)} :
       LET M   == MonthStemNum(basis[1], basis[2])
           zhi == MonthZhi(basis[2])
       IN  /\ fullBazi' = [fullBazi EXCEPT ![r] = Append(@, [gan |-> GanAt(M - 1), zhi |-> zhi])]
           /\ calc' = [calc EXCEPT ![r].jieQi = basis[3], ![r].term = basis[4],
                                   ![r].index = Append(@, <<M - 1, ZhiIndexOf(zhi)>>)]
  /\ pc' = [pc EXCEPT ![r] = "day"]
  /\ UNCHANGED <<req, running, now, gz, hexagram, resp, events, aiCalls>>
  /\ UNCHANGED outsideServer

\* getDayGanzhi(now): a new instance, gzDay() on it.
getDayGanzhi(r) ==
  /\ pc[r] = "day"
  /\ CanRun(r)
  /\ \E g \in {NewGanZhi(now[r])} : \E ix \in {gzDayIndex(g.localtime)} :
       /\ gz' = [gz EXCEPT ![r] = g]
       /\ fullBazi' = [fullBazi EXCEPT ![r] = Append(@, Pillar(ix[1], ix[2]))]
       /\ calc' = [calc EXCEPT ![r].index = Append(@, ix)]
  /\ pc' = [pc EXCEPT ![r] = "hour"]
  /\ UNCHANGED <<req, running, now, hexagram, resp, events, aiCalls>>
  /\ UNCHANGED outsideServer

\* getHourGanzhi(now): a new instance, gzHour() on it.
getHourGanzhi(r) ==
  /\ pc[r] = "hour"
  /\ CanRun(r)
  /\ \E g \in {NewGanZhi(now[r])} : \E ix \in {gzHourIndex(g.localtime)} :
       /\ gz' = [gz EXCEPT ![r] = g]
       /\ fullBazi' = [fullBazi EXCEPT ![r] = Append(@, Pillar(ix[1] - 1, ix[2]))]
       /\ calc' = [calc EXCEPT ![r].index = Append(@, <<ix[1] - 1, ix[2]>>)]
  /\ pc' = [pc EXCEPT ![r] = "hexagram"]
  /\ UNCHANGED <<req, running, now, hexagram, resp, events, aiCalls>>
  /\ UNCHANGED outsideServer

\* "const hexagram = generateHexagram(numbers)".
CastHexagram(r) ==
  /\ pc[r] = "hexagram"
  /\ CanRun(r)
  /\ hexagram' = [hexagram EXCEPT ![r] = generateHexagram(req[r].numbers.items)]
  /\ pc' = [pc EXCEPT ![r] =
              IF req[r].accept = "text/event-stream" THEN "meta" ELSE "config"]
  /\ UNCHANGED <<req, running, now, gz, calc, fullBazi, resp, events, aiCalls>>
  /\ UNCHANGED outsideServer

\* streamDivination: writer.write is called with the meta event and the
\* task awaits it; streamDivination returns the Response.  The write
\* settles, by resolving or by rejecting, in CheckConfig.
WriteMeta(r) ==
  /\ pc[r] = "meta"
  /\ CanRun(r)
  /\ events' = [events EXCEPT ![r] = Append(@, "meta")]
  /\ pc' = [pc EXCEPT ![r] = "config"]
  /\ running' = 0
  /\ UNCHANGED <<req, now, gz, calc, fullBazi, hexagram, resp, aiCalls>>
  /\ UNCHANGED outsideServer

ConfigComplete(q) == q.apiKey /\ q.endpoint /\ q.model

\* "await writer.write(meta)" settles, and the configuration checks and the
\* fetch follow.  When the client has cancelled the body the write rejects:
\* the catch's write of the error event rejects too, the exception leaves
\* the catch, writer.close() in the finally rejects and the task ends with a
\* rejection that nothing handles (pc "threw").  Otherwise a streaming
\* request throws on a missing value: the catch calls writer.write with the
\* error event and awaits it, the stream still open.  A plain request
\* returns 400.
CheckConfig(r) ==
  /\ pc[r] = "config"
  /\ CanRun(r)
  /\ IF Cancelled(r)
     THEN /\ pc' = [pc EXCEPT ![r] = "threw"]
          /\ UNCHANGED <<aiCalls, events, resp>>
     ELSE IF ConfigComplete(req[r])
     THEN /\ aiCalls' = [aiCalls EXCEPT ![r] = @ + 1]
          /\ pc' = [pc EXCEPT ![r] = "fetch"]
          /\ UNCHANGED <<events, resp>>
     ELSE /\ UNCHANGED aiCalls
          /\ IF req[r].accept = "text/event-stream"
             THEN /\ events' = [events EXCEPT ![r] = Append(@, "error")]
                  /\ pc' = [pc EXCEPT ![r] = "closing"]
                  /\ UNCHANGED resp
             ELSE /\ resp' = [resp EXCEPT ![r] = Reply(400, "text")]
                  /\ pc' = [pc EXCEPT ![r] = "done"]
                  /\ UNCHANGED events
  /\ running' = 0
  /\ UNCHANGED <<req, now, gz, calc, fullBazi, hexagram>>
  /\ UNCHANGED outsideServer

\* "await fetch(endpoint, ...)" settles: with a response that is ok (and, for
\* the stream, has a body), with one that is not, or by rejecting.
\* Ok: the stream goes on to read the body, the plain request to
\* "await aiResp.json()".  Not ok: both go on to "await aiResp.text()".
\* Rejected: the stream's catch writes the error event, or has the write
\* refused after a cancel and ends as in CheckConfig; the plain request's
\* catch returns 502.
AiResponse(r, outcome) ==
  /\ pc[r] = "fetch"
  /\ running = 0
  /\ IF req[r].accept = "text/event-stream"
     THEN /\ UNCHANGED resp
          /\ IF outcome = "ok"
             THEN /\ pc' = [pc EXCEPT ![r] = "read"]
                  /\ UNCHANGED events
             ELSE IF outcome = "notok"
             THEN /\ pc' = [pc EXCEPT ![r] = "errText"]
                  /\ UNCHANGED events
             ELSE IF Cancelled(r)
             THEN /\ pc' = [pc EXCEPT ![r] = "threw"]
                  /\ UNCHANGED events
             ELSE /\ pc' = [pc EXCEPT ![r] = "closing"]
                  /\ events' = [events EXCEPT ![r] = Append(@, "error")]
     ELSE /\ UNCHANGED events
          /\ IF outcome = "ok"
             THEN /\ pc' = [pc EXCEPT ![r] = "json"]
                  /\ UNCHANGED resp
             ELSE IF outcome = "notok"
             THEN /\ pc' = [pc EXCEPT ![r] = "errText"]
                  /\ UNCHANGED resp
             ELSE /\ pc' = [pc EXCEPT ![r] = "done"]
                  /\ resp' = [resp EXCEPT ![r] = Reply(502, "text")]
  /\ UNCHANGED <<req, running, now, gz, calc, fullBazi, hexagram, aiCalls>>
  /\ UNCHANGED outsideServer

\* "const errText = await aiResp.text()" settles.  In the stream the throw
\* that follows, or the rejection, reaches the catch, which writes the error
\* event (refused after a cancel, as in CheckConfig).  In the plain request
\* a body that was read gives 502; the await
\* is outside any try, so a rejection rejects onRequestPost: pc "threw", no
\* Response.
AiErrorText(r, readable) ==
  /\ pc[r] = "errText"
  /\ running = 0
  /\ IF req[r].accept = "text/event-stream"
     THEN /\ UNCHANGED resp
          /\ IF Cancelled(r)
             THEN /\ pc' = [pc EXCEPT ![r] = "threw"]
                  /\ UNCHANGED events
             ELSE /\ pc' = [pc EXCEPT ![r] = "closing"]
                  /\ events' = [events EXCEPT ![r] = Append(@, "error")]
     ELSE /\ UNCHANGED events
          /\ IF readable
             THEN /\ pc' = [pc EXCEPT ![r] = "done"]
                  /\ resp' = [resp EXCEPT ![r] = Reply(502, "text")]
             ELSE /\ pc' = [pc EXCEPT ![r] = "threw"]
                  /\ UNCHANGED resp
  /\ UNCHANGED <<req, running, now, gz, calc, fullBazi, hexagram, aiCalls>>
  /\ UNCHANGED outsideServer

\* "const aiData = await aiResp.json()" of the plain request settles, and
\* "aiData.choices?.[0]" follows: a body that parses to a value other than
\* null gives the JSON result with status 200; a body that is the JSON null
\* makes "aiData.choices" throw a TypeError, and one that does not parse
\* rejects the await; both are outside any try, and onRequestPost rejects
\* without a Response.
AiData(r, body) ==
  /\ pc[r] = "json"
  /\ running = 0
  /\ IF body = "value"
     THEN /\ pc' = [pc EXCEPT ![r] = "done"]
          /\ resp' = [resp EXCEPT ![r] = Reply(200, "json")]
     ELSE /\ pc' = [pc EXCEPT ![r] = "threw"]
          /\ UNCHANGED resp
  /\ UNCHANGED <<req, running, now, gz, calc, fullBazi, hexagram, events, aiCalls>>
  /\ UNCHANGED outsideServer

MaxChunks == 2

\* One delta of the AI stream is forwarded as a reasoning or answer event;
\* after a cancel the write rejects and the task ends as in CheckConfig.
ReadChunk(r, kind) ==
  /\ pc[r] = "read"
  /\ running = 0
  /\ Len(events[r]) < 1 + MaxChunks
  /\ IF Cancelled(r)
     THEN /\ pc' = [pc EXCEPT ![r] = "threw"]
          /\ UNCHANGED events
     ELSE /\ events' = [events EXCEPT ![r] = Append(@, kind)]
          /\ UNCHANGED pc
  /\ UNCHANGED <<req, running, now, gz, calc, fullBazi, hexagram, resp, aiCalls>>
  /\ UNCHANGED outsideServer

\* The AI stream ends: reader.read() resolves with done, the loop breaks and
\* "finally { await writer.close(); }" runs in the same turn; after a cancel
\* close() rejects and nothing handles the rejection.
ReadDone(r) ==
  /\ pc[r] = "read"
  /\ running = 0
  /\ IF Cancelled(r)
     THEN /\ pc' = [pc EXCEPT ![r] = "threw"]
          /\ UNCHANGED resp
     ELSE /\ pc' = [pc EXCEPT ![r] = "done"]
          /\ resp' = [resp EXCEPT ![r].closed = TRUE]
  /\ UNCHANGED <<req, running, now, gz, calc, fullBazi, hexagram, events, aiCalls>>
  /\ UNCHANGED outsideServer

\* "await reader.read()" rejects while the AI stream is being read: the catch
\* calls writer.write with the error event and awaits it; after a cancel
\* the write rejects and the task ends as in CheckConfig.
ReadFail(r) ==
  /\ pc[r] = "read"
  /\ running = 0
  /\ IF Cancelled(r)
     THEN /\ pc' = [pc EXCEPT ![r] = "threw"]
          /\ UNCHANGED events
     ELSE /\ pc' = [pc EXCEPT ![r] = "closing"]
          /\ events' = [events EXCEPT ![r] = Append(@, "error")]
  /\ UNCHANGED <<req, running, now, gz, calc, fullBazi, hexagram, resp, aiCalls>>
  /\ UNCHANGED outsideServer

\* The write of the error event settles.  Resolved: the catch block is left
\* and "finally { await writer.close(); }" closes the stream.  Rejected
\* after a cancel: close() rejects as well and nothing handles the
\* rejection.
WriterClose(r) ==
  /\ pc[r] = "closing"
  /\ running = 0
  /\ IF Cancelled(r)
     THEN /\ pc' = [pc EXCEPT ![r] = "threw"]
          /\ UNCHANGED resp
     ELSE /\ pc' = [pc EXCEPT ![r] = "done"]
          /\ resp' = [resp EXCEPT ![r].closed = TRUE]
  /\ UNCHANGED <<req, running, now, gz, calc, fullBazi, hexagram, events, aiCalls>>
  /\ UNCHANGED outsideServer

\* The client cancels the body of the response (it closes the connection):
\* possible once streamDivination has returned the Response, until the
\* stream is closed.
clientCancel(r) ==
  /\ resp[r].kind = "stream"
  /\ ~resp[r].closed
  /\ ~resp[r].cancelled
  /\ pc[r] \in {"config", "fetch", "errText", "read", "closing"}
  /\ running = 0
  /\ resp' = [resp EXCEPT ![r].cancelled = TRUE]
  /\ UNCHANGED <<req, pc, running, now, gz, calc, fullBazi, hexagram, events, aiCalls>>
  /\ UNCHANGED outsideServer

\* ------------------------------------------------------------------------
\* Specification of the handler: two requests, small bodies
\* ------------------------------------------------------------------------

\* What new Date() may return on the server: 2024-02-04 09:00 and
\* 2024-06-15 23:00 (day numbers 44959 and 45091).
ServerTimes == {[dn |-> 44959, hour |-> 9], [dn |-> 45091, hour |-> 23]}

\* The client time 1985-02-04 21:00Z sent from UTC+8 (local 1985-02-05
\* 05:00; day number 30715).
SampleClientTime == ClientTime(MinutesOf(30715, 21), 0 - 480)

Accepts == {"text/event-stream", "application/json"}

\* The requests of the handler specification: a streaming request with its
\* own client time, a plain request and a streaming request without apiKey
\* that fall back on the server's time, and a streaming request with two
\* numbers.
Requests ==
  { Request("text/event-stream", TRUE, TRUE,
            <<JsNumber(6), JsNumber(10), JsNumber(4)>>, "q",
            TRUE, TRUE, TRUE, SampleClientTime),
    Request("application/json", TRUE, TRUE,
            <<JsNumber(2), JsNumber(2), JsNumber(2)>>, "q",
            TRUE, TRUE, TRUE, NoClientTime),
    Request("text/event-stream", TRUE, TRUE,
            <<JsNumber(2), JsNumber(2), JsNumber(2)>>, "q",
            FALSE, TRUE, TRUE, NoClientTime),
    Request("text/event-stream", TRUE, TRUE,
            <<JsNumber(2), JsNumber(4)>>, "q",
            TRUE, TRUE, TRUE, NoClientTime) }

onRequestPost(r) ==
  /\ pc[r] = "idle"
  /\ \E q \in Requests : onRequestPostOf(r, q)

resolveNow(r) ==
  /\ pc[r] = "resolve"
  /\ \E serverNow \in ServerTimes : ResolveNow(r, serverNow)

aiResponse(r) == \E outcome \in {"ok", "notok", "rejected"} : AiResponse(r, outcome)

aiErrorText(r) == \E readable \in BOOLEAN : AiErrorText(r, readable)

aiData(r) == \E body \in {"value", "null", "unparsable"} : AiData(r, body)

readChunk(r) == \E kind \in {"reasoning", "answer"} : ReadChunk(r, kind)

Next ==
  \E r \in Req :
    \/ onRequestPost(r)
    \/ resolveNow(r)
    \/ getYearGanzhi(r)
    \/ getMonthGanzhiBegin(r)
    \/ getMonthGanzhiEnd(r)
    \/ getDayGanzhi(r)
    \/ getHourGanzhi(r)
    \/ CastHexagram(r)
    \/ WriteMeta(r)
    \/ CheckConfig(r)
    \/ aiResponse(r)
    \/ aiErrorText(r)
    \/ aiData(r)
    \/ readChunk(r)
    \/ ReadDone(r)
    \/ ReadFail(r)
    \/ WriterClose(r)
    \/ clientCancel(r)

Spec == Init /\ [][Next]_vars

\* ------------------------------------------------------------------------
\* Specification of the stream: streamDivination from its first await on
\* ------------------------------------------------------------------------

\* What the four pillar calls of streamDivination leave behind, given the
\* lunar date, the month basis and the day and hour indices of the instant.
ComputedFrom(lunar, basis, dayIx, hourIx) ==
  LET yearIx == YearIndexOf(lunar[1])
      M      == MonthStemNum(basis[1], basis[2])
      zhi    == MonthZhi(basis[2])
  IN  [calc |-> [lunar |-> lunar, jieQi |-> basis[3], term |-> basis[4],
                 index |-> <<yearIx, <<M - 1, ZhiIndexOf(zhi)>>, dayIx,
                             <<hourIx[1] - 1, hourIx[2]>>>>],
       fullBazi |-> <<Pillar(yearIx[1], yearIx[2]),
                      [gan |-> GanAt(M - 1), zhi |-> zhi],
                      Pillar(dayIx[1], dayIx[2]),
                      Pillar(hourIx[1] - 1, hourIx[2])>>]

\* "const fullBazi = `${getYearGanzhi(now)}年 ${getMonthGanzhi(now)}月
\* ${getDayGanzhi(now)}日 ${getHourGanzhi(now)}时`".
ComputedFor(t) ==
  ComputedFrom(lnDate(t), gzMonthBasis(t, gzYear(t)), gzDayIndex(t), gzHourIndex(t))

\* The requests that onRequestPost hands to streamDivination.
StreamRequests ==
  {q \in Requests : q.accept = "text/event-stream" /\ q.json /\ PassesValidation(q)}

\* Every request has been handed to streamDivination and has computed its
\* pillars and hexagram.  At most one of them is still inside the synchronous
\* stretch that ends with the meta write; the others are past it.
InitStream ==
  \E qs \in [Req -> StreamRequests] : \E ts \in [Req -> ServerTimes] :
    \E first \in {0} \cup Req :
      /\ req = qs
      /\ pc = [r \in Req |-> IF r = first THEN "meta" ELSE "config"]
      /\ running = first
      /\ now = [r \in Req |-> resolveClientTime(qs[r].clientTime, ts[r])]
      /\ gz = [r \in Req |-> NewGanZhi(now[r])]
      /\ calc = [r \in Req |-> ComputedFor(now[r]).calc]
      /\ fullBazi = [r \in Req |-> ComputedFor(now[r]).fullBazi]
      /\ hexagram = [r \in Req |-> generateHexagram(qs[r].numbers.items)]
      /\ resp = [r \in Req |-> OpenStream]
      /\ events = [r \in Req |-> IF r = first THEN <<>> ELSE <<"meta">>]
      /\ aiCalls = [r \in Req |-> 0]
  /\ InitWorker
  /\ InitTables
  /\ InitTitled
  /\ InitPage

NextStream ==
  \E r \in Req :
    \/ WriteMeta(r)
    \/ CheckConfig(r)
    \/ aiResponse(r)
    \/ aiErrorText(r)
    \/ readChunk(r)
    \/ ReadDone(r)
    \/ ReadFail(r)
    \/ WriterClose(r)
    \/ clientCancel(r)

\* What the runtime and the AI endpoint do for a task that awaits: the write
\* resolves and the task goes on, the fetch settles, the body of a response
\* that is not ok is read, and the AI response ends or fails.
Resume(r) ==
  \/ WriteMeta(r)
  \/ CheckConfig(r)
  \/ aiResponse(r)
  \/ aiErrorText(r)
  \/ ReadDone(r)
  \/ ReadFail(r)
  \/ WriterClose(r)

\* The stream under a runtime that resumes every awaiting task and an AI
\* endpoint whose response ends.
SpecStream == InitStream /\ [][NextStream]_vars /\ \A r \in Req : WF_vars(Resume(r))


\* ------------------------------------------------------------------------
\* Specification of the service worker: fetch events of the page
\* ------------------------------------------------------------------------

\* The fetch listener: a request that is not a GET is left to the browser,
\* a GET is answered by cacheFirst.
onFetch(f) ==
  /\ fetchEv[f].pc = "idle"
  /\ \E method \in {"GET", "POST"} : \E u \in Urls :
       fetchEv' = [fetchEv EXCEPT ![f] =
                     IF method # "GET"
                     THEN [NoFetch EXCEPT !.pc = "done", !.method = method, !.url = u,
                                          !.served = [status |-> 0, from |-> "browser"]]
                     ELSE [NoFetch EXCEPT !.pc = "match", !.method = method, !.url = u]]
  /\ UNCHANGED cache
  /\ UNCHANGED outsideWorker

\* cacheFirst: "const cached = await cache.match(request); if (cached) return
\* cached;".
cacheMatch(f) ==
  /\ fetchEv[f].pc = "match"
  /\ fetchEv' = [fetchEv EXCEPT ![f] =
                   IF cache[fetchEv[f].url] # NoEntry
                   THEN [@ EXCEPT !.pc = "done",
                                  !.served = [status |-> cache[fetchEv[f].url].status,
                                              from |-> "cache"]]
                   ELSE [@ EXCEPT !.pc = "fetch"]]
  /\ UNCHANGED cache
  /\ UNCHANGED outsideWorker

\* cacheFirst once fetchWithRedirect has resolved with response: when
\* "response.ok && response.type !== 'opaque'" cache.put is started, and the
\* response is returned without awaiting the put: the cache is as it was.
Returned(f, response) ==
  /\ fetchEv' = [fetchEv EXCEPT ![f].pc = "done",
                                ![f].served = [status |-> response.status,
                                               from |-> "network"],
                                ![f].put = IF Ok(response) /\ response.type # "opaque"
                                           THEN response.status
                                           ELSE 0]
  /\ UNCHANGED cache

\* cacheFirst when fetchWithRedirect rejects: the catch returns the 404
\* response of the offline case.
Offline(f) ==
  /\ fetchEv' = [fetchEv EXCEPT ![f].pc = "done",
                                ![f].served = [status |-> 404, from |-> "offline"]]
  /\ UNCHANGED cache

\* fetchWithRedirect: "const response = await fetch(request)"; the response
\* is returned unless it needs the redirect fix and has a final URL other
\* than the request's, which is then fetched.
fetchRequest(f) ==
  /\ fetchEv[f].pc = "fetch"
  /\ \/ Offline(f)
     \/ \E response \in NetworkResponses(fetchEv[f].url) :
          LET finalUrl == resolveFinalUrl(response, fetchEv[f].url)
          IN  IF needsRedirectFix(response) /\ finalUrl # "" /\ finalUrl # fetchEv[f].url
              THEN /\ fetchEv' = [fetchEv EXCEPT ![f].pc = "refetch",
                                                 ![f].finalUrl = finalUrl]
                   /\ UNCHANGED cache
              ELSE Returned(f, response)
  /\ UNCHANGED outsideWorker

\* fetchWithRedirect: "return fetch(finalUrl, ...)".
fetchFinalUrl(f) ==
  /\ fetchEv[f].pc = "refetch"
  /\ \/ Offline(f)
     \/ \E response \in NetworkResponses(fetchEv[f].finalUrl) : Returned(f, response)
  /\ UNCHANGED outsideWorker

\* The cache.put started by cacheFirst settles: the response is stored under
\* the URL of the request, or the put rejects and ".catch(() => {})" swallows
\* the rejection.
cachePut(f) ==
  /\ fetchEv[f].put # 0
  /\ cache' = IF PutResolves([status |-> fetchEv[f].put])
              THEN [cache EXCEPT ![fetchEv[f].url] =
                      [status |-> fetchEv[f].put, by |-> "fetch"]]
              ELSE cache
  /\ fetchEv' = [fetchEv EXCEPT ![f].put = 0]
  /\ UNCHANGED outsideWorker

NextWorker ==
  \E f \in FetchEvents :
    \/ onFetch(f)
    \/ cacheMatch(f)
    \/ fetchRequest(f)
    \/ fetchFinalUrl(f)
    \/ cachePut(f)

SpecWorker == Init /\ [][NextWorker]_vars

\* ------------------------------------------------------------------------
\* Specification of the calendar: one request per date of the table and of
\* the days around it
\* ------------------------------------------------------------------------

CalDays == (0 - PreDays)..(LastDay + PostDays)

InRange(t) == t.dn \in 0..LastDay

\* Every hour is requested on the days from 1984-01-01 on (day number
\* 30315: 83 years of 365 days and 20 leap days); one hour on the other days.
SweepFrom == 83 * 365 + 20

SweepDays == 60

HoursOf(dn) ==
  IF dn \in SweepFrom..(SweepFrom + SweepDays - 1) THEN 0..23 ELSE {dn % 24}

CalRequest(dn, hour) ==
  Request("application/json", TRUE, TRUE,
          <<JsNumber(2), JsNumber(2), JsNumber(2)>>, "q", TRUE, TRUE, TRUE,
          ClientTime(MinutesOf(dn, hour), 0))

\* The request has passed the checks of onRequestPost.
InitCal ==
  /\ \E dn \in CalDays : \E hour \in HoursOf(dn) :
       req = [r \in Req |-> IF r = 1 THEN CalRequest(dn, hour) ELSE NoRequest]
  /\ pc = [r \in Req |-> IF r = 1 THEN "resolve" ELSE "idle"]
  /\ running = 1
  /\ now = [r \in Req |-> NoDate]
  /\ gz = [r \in Req |-> NoInstance]
  /\ calc = [r \in Req |-> NoCalc]
  /\ fullBazi = [r \in Req |-> <<>>]
  /\ hexagram = [r \in Req |-> <<>>]
  /\ resp = [r \in Req |-> NoResponse]
  /\ events = [r \in Req |-> <<>>]
  /\ aiCalls = [r \in Req |-> 0]
  /\ InitWorker
  /\ InitTables
  /\ InitTitled
  /\ InitPage

NextCal ==
  \/ resolveNow(1)
  \/ getYearGanzhi(1)
  \/ getMonthGanzhiBegin(1)
  \/ getMonthGanzhiEnd(1)
  \/ getDayGanzhi(1)
  \/ getHourGanzhi(1)

SpecCal == InitCal /\ [][NextCal]_vars

\* ------------------------------------------------------------------------
\* Specification of the lunar tables: the methods of GanZhi that read
\* gLunarMonth and gLunarMonthDay, and the loops that use them, each called
\* on its own
\* ------------------------------------------------------------------------

\* The lunar years of gLunarMonthDay: 1901..2050.
TableYears == START_YEAR..(START_YEAR + Len(gLunarMonthDay) - 1)

\* The iterations of "while (deltaDays >= tmp2)" in lnDate, the one that
\* returns from inside the leap month counted too.
RECURSIVE MonthWalkSteps(_, _, _, _)
MonthWalkSteps(deltaDays, year, month, steps) ==
  LET tmp2 == lunarMonthDays(year, month)[2]
  IN  IF deltaDays >= tmp2
      THEN LET rest == deltaDays - tmp2
           IN  IF month = getLeapMonth(year)
               THEN LET leapDays == lunarMonthDays(year, month)[1]
                    IN  IF rest < leapDays
                        THEN steps + 1
                        ELSE MonthWalkSteps(rest - leapDays, year, month + 1, steps + 1)
               ELSE MonthWalkSteps(rest, year, month + 1, steps + 1)
      ELSE steps

\* The loops behind the four pillars of day dn: <<iterations of the year
\* loop of lnDate, lunar year it ends in, iterations of its month loop, days
\* examined by the loop back of gzMonth, term it found>>; no loop of lnDate
\* runs for the first 49 days, and the loop back only when the day itself
\* starts no month.
LoopsOf(dn, w, jieQi, scan) ==
  << w[3], w[2],
     IF dn < 49 THEN 0 ELSE MonthWalkSteps(w[1], w[2], 1, 0),
     IF IsOddJie(jieQi) THEN 0 ELSE scan[2],
     IF IsOddJie(jieQi) THEN jieQi ELSE scan[1] >>

\* this.lunarMonthDays(lunarYear, lunarMonth).
callLunarMonthDays(lunarYear, lunarMonth) ==
  /\ probe' = [fn |-> "lunarMonthDays", args |-> <<lunarYear, lunarMonth>>,
               out |-> lunarMonthDays(lunarYear, lunarMonth)]
  /\ UNCHANGED outsideTables

\* this.getLeapMonth(lunarYear) and this.lunarYearDays(lunarYear).
callLunarYearDays(lunarYear) ==
  /\ probe' = [fn |-> "lunarYearDays", args |-> <<lunarYear>>,
               out |-> <<getLeapMonth(lunarYear), lunarYearDays(lunarYear)>>]
  /\ UNCHANGED outsideTables

\* lnDate() and the loop back of gzMonth() on the date dn days after
\* 1901-01-01, their iterations counted.
callLoops(dn) ==
  /\ probe' = [fn |-> "loops", args |-> <<dn>>,
               out |-> LoopsOf(dn,
                               IF dn < 49 THEN <<dn, START_YEAR - 1, 0>>
                               ELSE YearWalk(dn - 49, START_YEAR, 0),
                               nlJieOfDay(dn),
                               BackScan([dn |-> dn, hour |-> 0], 0 - 1))]
  /\ UNCHANGED outsideTables

\* One call is made in a run.
NextTables ==
  \/ /\ probe = NoProbe
     /\ \E lunarYear \in TableYears : \E lunarMonth \in 1..12 :
          callLunarMonthDays(lunarYear, lunarMonth)
  \/ /\ probe = NoProbe
     /\ \E lunarYear \in TableYears : callLunarYearDays(lunarYear)
  \/ /\ probe = NoProbe
     /\ \E dn \in 0..LastDay : callLoops(dn)

SpecTables == Init /\ [][NextTables]_vars

\* ------------------------------------------------------------------------
\* Specification of the SSE response with a title (worker.js, src/index.js)
\* ------------------------------------------------------------------------

\* sse.variant:   the file whose streamDivination runs.
\* sse.outer:     where the async function around the try block stands:
\*                "idle", "meta" (await writer.write of the meta event),
\*                "all" (await Promise.all), "main" and "title"
\*                (src/index.js: the answers, then await generateTitle),
\*                "catch", "finally", "end".
\* sse.main:      the answer task: "idle", "fetch", "read", "write" (await
\*                writer.write of a reasoning or an answer event), "done",
\*                "failed".
\* sse.title:     generateTitle: "idle", "fetch", "read", "write", "done",
\*                "failed".
\* sse.closed:    writer.close() has been called and has resolved.
\* sse.cancelled: the client has cancelled the body of the response; the
\*                writable side of the TransformStream is errored.
\* sse.unhandled: the promise of the async function has rejected, and
\*                nothing handles the rejection.
\* sse.log:       the calls of writer.write in order, [ev, ok, live]: ok is
\*                FALSE when the call came after close(), live is FALSE when
\*                it came after the client's cancel; the writer rejects the
\*                call in both cases.
\* sse.reads:     chunks read by the answer task and by generateTitle.
Variants == {"worker.js", "index.js"}

\* Chunks with an event that one task reads from its AI response.
MaxEvents == 2

\* writer.write(event): the chunks are queued in the order of the calls; a
\* call after close(), or after the client's cancel, is rejected.
Written(s, ev) ==
  [s EXCEPT !.log = Append(@, [ev |-> ev, ok |-> ~s.closed, live |-> ~s.cancelled])]

\* The writer takes no chunk any more.
Refusing(s) == s.closed \/ s.cancelled

\* streamDivination up to its first await.  Without an API key the try block
\* throws before the meta event; with one, writer.write is called with the
\* meta event and the function awaits it.  The Response is returned.
streamDivinationTitled(variant, hasKey) ==
  /\ sse.outer = "idle"
  /\ sse' = IF ~hasKey
            THEN [sse EXCEPT !.variant = variant, !.outer = "catch"]
            ELSE [Written(sse, "meta") EXCEPT !.variant = variant, !.outer = "meta"]
  /\ UNCHANGED outsideTitled

\* "await writer.write(meta event)" settles.  It rejects when the client has
\* cancelled in the meantime, and the catch block runs.  Otherwise worker.js
\* starts mainDivinationTask and generateTitle, each running up to its
\* fetch, and awaits Promise.all; src/index.js goes on with the answers
\* itself.
metaWritten ==
  /\ sse.outer = "meta"
  /\ sse' = IF sse.cancelled
            THEN [sse EXCEPT !.outer = "catch"]
            ELSE IF sse.variant = "worker.js"
                 THEN [sse EXCEPT !.outer = "all", !.main = "fetch", !.title = "fetch"]
                 ELSE [sse EXCEPT !.outer = "main", !.main = "fetch"]
  /\ UNCHANGED outsideTitled

\* The client cancels the body of the response it has received: from now on
\* a pending and every later writer.write rejects, and so does
\* writer.close().
cancelBody ==
  /\ sse.outer \notin {"idle", "end"}
  /\ ~sse.closed
  /\ ~sse.cancelled
  /\ sse' = [sse EXCEPT !.cancelled = TRUE]
  /\ UNCHANGED outsideTitled

\* "const aiResp = await fetch(usedEndpoint, ...)" of the answers: a response
\* that is not ok, or a failed fetch, throws.
mainFetch(ok) ==
  /\ sse.main = "fetch"
  /\ sse' = [sse EXCEPT !.main = IF ok THEN "read" ELSE "failed"]
  /\ UNCHANGED outsideTitled

\* "await reader.read()" of the answers and what follows it: with a chunk
\* that has a reasoning or an answer delta writer.write is called and
\* awaited, done ends the task, a failed read throws.
mainRead(what) ==
  /\ sse.main = "read"
  /\ what \in {"reasoning", "answer"} => sse.reads[1] < MaxEvents
  /\ sse' = IF what = "done" THEN [sse EXCEPT !.main = "done"]
            ELSE IF what = "throw" THEN [sse EXCEPT !.main = "failed"]
            ELSE [Written(sse, what) EXCEPT !.reads[1] = @ + 1, !.main = "write"]
  /\ UNCHANGED outsideTitled

\* "await writer.write(...)" of the answers settles: a write that the writer
\* refused, or that the client's cancel overtook, rejects and the task
\* throws; otherwise the loop reads on.
mainWritten ==
  /\ sse.main = "write"
  /\ sse' = [sse EXCEPT !.main = IF Refusing(sse) THEN "failed" ELSE "read"]
  /\ UNCHANGED outsideTitled

\* What an exception does to generateTitle: worker.js catches it inside and
\* returns, src/index.js lets it out to the caller.
TitleThrown == IF sse.variant = "worker.js" THEN "done" ELSE "failed"

\* "await fetch(...)" of generateTitle: a response that is not ok is logged
\* and the function returns.
titleFetch(outcome) ==
  /\ sse.title = "fetch"
  /\ sse' = [sse EXCEPT !.title = IF outcome = "ok" THEN "read"
                                  ELSE IF outcome = "bad" THEN "done"
                                  ELSE TitleThrown]
  /\ UNCHANGED outsideTitled

\* "await reader.read()" of generateTitle and what follows it: with a chunk
\* that has content writer.write is called with a title event and awaited.
titleRead(what) ==
  /\ sse.title = "read"
  /\ what = "title" => sse.reads[2] < MaxEvents
  /\ sse' = IF what = "done" THEN [sse EXCEPT !.title = "done"]
            ELSE IF what = "throw" THEN [sse EXCEPT !.title = TitleThrown]
            ELSE [Written(sse, what) EXCEPT !.reads[2] = @ + 1, !.title = "write"]
  /\ UNCHANGED outsideTitled

\* "await writer.write(title event)" settles: a rejected write is an
\* exception in generateTitle.
titleWritten ==
  /\ sse.title = "write"
  /\ sse' = [sse EXCEPT !.title = IF Refusing(sse) THEN TitleThrown ELSE "read"]
  /\ UNCHANGED outsideTitled

\* "await Promise.all([mainDivinationTask, titleGenerationTask])": it
\* rejects as soon as one task has rejected and resolves when both have
\* ended.
awaitAll ==
  /\ sse.outer = "all"
  /\ \/ sse.main = "failed" /\ sse' = [sse EXCEPT !.outer = "catch"]
     \/ sse.main = "done" /\ sse.title = "done" /\ sse' = [sse EXCEPT !.outer = "finally"]
  /\ UNCHANGED outsideTitled

\* src/index.js: the answers have ended; generateTitle is called and awaited
\* inside the same try block.
awaitMain ==
  /\ sse.outer = "main"
  /\ \/ sse.main = "failed" /\ sse' = [sse EXCEPT !.outer = "catch"]
     \/ sse.main = "done" /\ sse' = [sse EXCEPT !.outer = "title", !.title = "fetch"]
  /\ UNCHANGED outsideTitled

\* src/index.js: "await generateTitle(...)" has settled.
awaitTitle ==
  /\ sse.outer = "title"
  /\ \/ sse.title = "failed" /\ sse' = [sse EXCEPT !.outer = "catch"]
     \/ sse.title = "done" /\ sse' = [sse EXCEPT !.outer = "finally"]
  /\ UNCHANGED outsideTitled

\* "catch (err) { await writer.write(error event) }": the write is called;
\* the function awaits it.
catchError ==
  /\ sse.outer = "catch"
  /\ sse' = [Written(sse, "error") EXCEPT !.outer = "finally"]
  /\ UNCHANGED outsideTitled

\* The try block has ended, or the write of the catch block has settled:
\* "finally { await writer.close() }".  After the client's cancel close()
\* rejects; the rejection leaves the async function, whose promise nobody
\* holds.
closeWriter ==
  /\ sse.outer = "finally"
  /\ sse' = IF sse.cancelled
            THEN [sse EXCEPT !.unhandled = TRUE, !.outer = "end"]
            ELSE [sse EXCEPT !.closed = TRUE, !.outer = "end"]
  /\ UNCHANGED outsideTitled

NextTitled ==
  \/ \E variant \in Variants : \E hasKey \in BOOLEAN :
       streamDivinationTitled(variant, hasKey)
  \/ metaWritten
  \/ cancelBody
  \/ \E ok \in BOOLEAN : mainFetch(ok)
  \/ \E what \in {"reasoning", "answer", "done", "throw"} : mainRead(what)
  \/ mainWritten
  \/ \E outcome \in {"ok", "bad", "throw"} : titleFetch(outcome)
  \/ \E what \in {"title", "done", "throw"} : titleRead(what)
  \/ titleWritten
  \/ awaitAll
  \/ awaitMain
  \/ awaitTitle
  \/ catchError
  \/ closeWriter

SpecTitled == Init /\ [][NextTitled]_vars

\* ------------------------------------------------------------------------
\* Specification of the page (static/assets/js/app.js, history.js): one
\* divination after another, with the status button and the history panel
\* ------------------------------------------------------------------------

\* Divinations submitted in a run.
MaxSubmits == 2

\* Calls of renderHistory in a run.
MaxRenders == 2

\* Requests of the history panel waiting for the database at a time.
MaxQueue == 2

\* showLoading(answerEl, ...): the loading container becomes the content of
\* the answer area.
showLoading(p) == [p EXCEPT !.content = TRUE, !.loading = TRUE]

\* clearLoading(answerEl): the element is emptied only when the loading
\* container is its only child.
clearLoading(p) ==
  IF p.loading THEN [p EXCEPT !.content = FALSE, !.loading = FALSE] ELSE p

\* Text or rendered markdown is written into the answer area.
Shown(p) == [p EXCEPT !.content = TRUE, !.loading = FALSE]

\* clearChat(): the outputs are emptied, no record is shown, saving is
\* switched on, then updateStatusIcon().
clearChat(p) ==
  updateStatusIcon([p EXCEPT !.content = FALSE, !.loading = FALSE,
                             !.currentChatId = 0, !.isSaveEnabled = TRUE])

\* loadChat(record): clearChat(), the record's result written into the
\* answer area "if (record.result)", then updateStatusIcon().
loadChat(p, record) ==
  updateStatusIcon([clearChat(p) EXCEPT !.content = record.result,
                                        !.currentChatId = record.id])

\* init() after "await initDB()": the database is open, or the opening has
\* failed and the error is logged; then updateStatusIcon().
initResumes(opened) ==
  /\ page.db = "opening"
  /\ page' = updateStatusIcon([page EXCEPT !.db = IF opened THEN "open" ELSE "failed"])
  /\ UNCHANGED outsideBrowser

\* The click on the status button; it is disabled while a divination runs.
\* Before init() has called updateStatusIcon() the button has no data-action
\* and no case of the switch matches.
handleStatusButtonClick ==
  /\ ~page.statusDisabled
  /\ page' = IF page.action = "new" THEN clearChat(page)
             ELSE IF page.action = "disable-save"
                  THEN updateStatusIcon([page EXCEPT !.isSaveEnabled = FALSE])
                  ELSE IF page.action = "enable-save"
                       THEN updateStatusIcon([page EXCEPT !.isSaveEnabled = TRUE])
                       ELSE page
  /\ UNCHANGED outsideBrowser

\* onSubmit up to "await fetch": a form that fails the check of the API key
\* returns at once; otherwise the status button is disabled, the loading
\* container shown in the answer area, the stop handler bound.
\* enabledAtSubmit remembers isSaveEnabled at this moment.
onSubmit(valid) ==
  /\ page.phase = "idle"
  /\ page.submits < MaxSubmits
  /\ page' = IF ~valid THEN page
             ELSE showLoading([page EXCEPT !.statusDisabled = TRUE, !.phase = "fetch",
                                           !.aborted = FALSE, !.answer = FALSE,
                                           !.errorEvent = FALSE,
                                           !.enabledAtSubmit = page.isSaveEnabled,
                                           !.submits = @ + 1])
  /\ UNCHANGED outsideBrowser

\* saveCurrentDivination up to "await addRecord(record)": without an open
\* database addRecord rejects at once, the error is logged and
\* updateStatusIcon() ends onSubmit; otherwise the request waits for the
\* database.
saveCurrentDivination(p, record) ==
  IF p.db = "open"
  THEN [p EXCEPT !.queue = Append(@, DbRequest("add", 0, NoEl, record, FALSE))]
  ELSE updateStatusIcon(p)

\* The finally block of onSubmit up to "await saveCurrentDivination":
\* finalAnswer is set only when the loop over the stream has ended with
\* done; a divination with an answer is handed to saveCurrentDivination,
\* with the innerHTML of the answer area as its result, when isSaveEnabled
\* is true at this moment, and otherwise updateStatusIcon() ends onSubmit.
Finally(p, outcome) ==
  LET q == [p EXCEPT !.statusDisabled = FALSE, !.phase = "idle"]
  IN  IF outcome = "done" /\ p.answer
      THEN IF p.isSaveEnabled
           THEN saveCurrentDivination(q, [id |-> 0,
                                          enabledAtSubmit |-> p.enabledAtSubmit,
                                          outcome |-> outcome,
                                          errorEvent |-> p.errorEvent,
                                          result |-> p.content])
           ELSE updateStatusIcon(q)
      ELSE q

\* stopHandler: controller.abort() rejects the pending fetch or read with an
\* AbortError before any other event is handled; the catch block appends
\* the notice to the answer area and the finally block follows.
stopHandler ==
  /\ page.phase \in {"fetch", "read"}
  /\ page' = Finally(Shown([page EXCEPT !.aborted = TRUE]), "aborted")
  /\ UNCHANGED outsideBrowser

\* "await fetch('/api/divination', ...)" settles: a response that is not ok
\* clears the loading container and returns, a rejection is caught and its
\* message written into the answer area.
pageFetch(outcome) ==
  /\ page.phase = "fetch"
  /\ page' = IF outcome = "ok" THEN [page EXCEPT !.phase = "read"]
             ELSE IF outcome = "notok" THEN Finally(clearLoading(page), "failed")
             ELSE Finally(Shown(page), "failed")
  /\ UNCHANGED outsideBrowser

\* The answer event of a chunk whose data is blank (nothing, spaces, line
\* breaks): answerMarkdown gains no text, and the answer area gets the
\* rendering of answerMarkdown in place of what it held, which is nothing
\* as long as answerMarkdown is blank.  page.answer says that answerMarkdown
\* is not blank.
BlankAnswer(p) ==
  IF p.answer THEN Shown(p) ELSE [p EXCEPT !.content = FALSE, !.loading = FALSE]

\* "await reader.read()" settles, and the event of the chunk is shown: an
\* answer event with text renders the answer and one without ("blank")
\* renders what answerMarkdown holds, the first reasoning event received
\* with the reasoning toggle on clears the loading container, an error
\* event appends its text; "other" is an event that changes neither (a
\* title, a reasoning event with the toggle off).  The stream ends with
\* done, or the read rejects.
pageRead(what) ==
  /\ page.phase = "read"
  /\ page' = IF what = "answer" THEN Shown([page EXCEPT !.answer = TRUE])
             ELSE IF what = "blank" THEN BlankAnswer(page)
             ELSE IF what = "reasoning" THEN clearLoading(page)
             ELSE IF what = "error" THEN Shown([page EXCEPT !.errorEvent = TRUE])
             ELSE IF what = "other" THEN page
             ELSE IF what = "done" THEN Finally(page, "done")
             ELSE Finally(Shown(page), "failed")
  /\ UNCHANGED outsideBrowser

\* The i-th waiting request can settle: it is the first, or it and all the
\* requests before it only read (read-only transactions do not wait for one
\* another).
Ready(q, i) ==
  /\ i \in 1..Len(q)
  /\ i = 1 \/ \A j \in 1..i : q[j].op \in {"get", "getAll"}

Remove(q, i) == SubSeq(q, 1, i - 1) \o SubSeq(q, i + 1, Len(q))

\* saveCurrentDivination after "await addRecord(record)": the object store
\* has given the record the next key, which becomes currentChatId; when the
\* request fails (request.onerror), the error is logged and nothing is
\* stored.  Then the updateStatusIcon() that ends onSubmit.
saveCurrentDivinationResumes(i, ok) ==
  /\ Ready(page.queue, i)
  /\ page.queue[i].op = "add"
  /\ LET newId == page.lastKey + 1
     IN  page' = IF ok
                 THEN updateStatusIcon(
                        [page EXCEPT !.queue = Remove(@, i),
                                     !.lastKey = newId,
                                     !.store = @ \cup {[page.queue[i].record EXCEPT !.id = newId]},
                                     !.currentChatId = newId])
                 ELSE updateStatusIcon([page EXCEPT !.queue = Remove(@, i)])
  /\ UNCHANGED outsideBrowser

\* renderHistory(keyword) up to "await searchRecords(keyword)": the list is
\* emptied; without an open database the request rejects at once and the
\* list shows the error.  Every caller passes currentSearchKeyword.
renderHistory(p) ==
  LET q == [p EXCEPT !.list = {}, !.timers = {}, !.renders = @ + 1]
  IN  IF p.db = "open"
      THEN [q EXCEPT !.queue = Append(@, DbRequest("getAll", 0, [id |-> 0, r |-> q.renders],
                                                 NoRecord, p.keyword))]
      ELSE q

\* The click on the history button: toggleHistoryPanel(true) calls
\* renderHistory(currentSearchKeyword) without awaiting it and opens the
\* panel.
openHistoryPanel ==
  /\ page.renders < MaxRenders
  /\ Len(page.queue) < MaxQueue
  /\ page' = [renderHistory(page) EXCEPT !.panelOpen = TRUE]
  /\ UNCHANGED outsideBrowser

\* handleSearchInput: the input event of the search box of the panel, with a
\* value that trims to something (word) or to nothing.  The keyword is kept
\* and the timer of 300 ms is set again.
handleSearchInput(word) ==
  /\ page.panelOpen
  /\ page' = [page EXCEPT !.keyword = word, !.searchTimer = TRUE]
  /\ UNCHANGED outsideBrowser

\* The timer of handleSearchInput fires: performSearch(keyword) awaits
\* renderHistory(keyword), the keyword being the one of the last input.
performSearch ==
  /\ page.searchTimer
  /\ page.renders < MaxRenders
  /\ Len(page.queue) < MaxQueue
  /\ page' = renderHistory([page EXCEPT !.searchTimer = FALSE])
  /\ UNCHANGED outsideBrowser

\* clearSearch: the click on the clear button of the search box empties the
\* keyword, clears the timer and calls renderHistory().
clearSearch ==
  /\ page.panelOpen
  /\ page.renders < MaxRenders
  /\ Len(page.queue) < MaxQueue
  /\ page' = renderHistory([page EXCEPT !.keyword = FALSE, !.searchTimer = FALSE])
  /\ UNCHANGED outsideBrowser

\* renderHistory after "await searchRecords(keyword)".  db.js as it stands
\* exports no searchRecords; with an empty keyword it is taken to give every
\* record, as getAllRecords does, and with a keyword any of the records
\* (found).  An element for every record given is appended to the list;
\* without records the list shows the message alone, and when the request
\* fails (request.onerror) the catch block puts the error in place of the
\* list.
renderHistoryResumes(i, ok, found) ==
  /\ Ready(page.queue, i)
  /\ page.queue[i].op = "getAll"
  /\ found \subseteq page.store
  /\ ~page.queue[i].keyword => found = page.store
  /\ page' = [page EXCEPT !.queue = Remove(@, i),
                          !.list = IF ~ok \/ found = {} THEN {}
                                   ELSE @ \cup { [id |-> rec.id, r |-> page.queue[i].el.r] :
                                                 rec \in found }]
  /\ UNCHANGED outsideBrowser

\* The click on the close button of the panel: onPanelClose is clearChat,
\* then toggleHistoryPanel(false).
closeHistoryPanel ==
  /\ page.panelOpen
  /\ page' = [clearChat(page) EXCEPT !.panelOpen = FALSE]
  /\ UNCHANGED outsideBrowser

\* The click on the overlay beside the panel: toggleHistoryPanel(false).
clickOverlay ==
  /\ page.panelOpen
  /\ page' = [page EXCEPT !.panelOpen = FALSE]
  /\ UNCHANGED outsideBrowser

\* handleHistoryItemClick(id) up to "await getRecordById(id)", for the click
\* on an element of the list.
handleHistoryItemClick(el) ==
  /\ page.panelOpen
  /\ el \in page.list
  /\ Len(page.queue) < MaxQueue
  /\ page' = [page EXCEPT !.queue = Append(@, DbRequest("get", el.id, el, NoRecord, FALSE))]
  /\ UNCHANGED outsideBrowser

\* handleHistoryItemClick after the await: without the record it returns;
\* with it onItemClick, which is loadChat, shows the record and the panel
\* is closed.  When the request fails (request.onerror) the error is logged.
handleHistoryItemClickResumes(i, ok) ==
  /\ Ready(page.queue, i)
  /\ page.queue[i].op = "get"
  /\ LET p == [page EXCEPT !.queue = Remove(@, i)]
         found == {rec \in page.store : rec.id = page.queue[i].id}
     IN  page' = IF ~ok \/ found = {} THEN p
                 ELSE [loadChat(p, CHOOSE rec \in found : TRUE) EXCEPT !.panelOpen = FALSE]
  /\ UNCHANGED outsideBrowser

\* handleDelete of an element of the list up to "await
\* deleteRecord(recordId)".
handleDelete(el) ==
  /\ page.panelOpen
  /\ el \in page.list
  /\ Len(page.queue) < MaxQueue
  /\ page' = [page EXCEPT !.queue = Append(@, DbRequest("delete", el.id, el, NoRecord, FALSE))]
  /\ UNCHANGED outsideBrowser

\* handleDelete after the await: the record is gone from the store;
\* onItemDelete clears the chat when the record is the one shown, and the
\* removal of the element is scheduled.  When the request fails
\* (request.onerror) the error is logged and the element stays.
handleDeleteResumes(i, ok) ==
  /\ Ready(page.queue, i)
  /\ page.queue[i].op = "delete"
  /\ LET rq == page.queue[i]
         p == [page EXCEPT !.queue = Remove(@, i),
                           !.store = {rec \in @ : rec.id # rq.id},
                           !.timers = IF rq.el \in page.list THEN @ \cup {rq.el} ELSE @]
     IN  page' = IF ~ok THEN [page EXCEPT !.queue = Remove(@, i)]
                 ELSE IF page.currentChatId = rq.id THEN clearChat(p) ELSE p
  /\ UNCHANGED outsideBrowser

\* The timer of handleDelete fires: "itemEl.remove()".
removeItem(el) ==
  /\ el \in page.timers
  /\ page' = [page EXCEPT !.list = @ \ {el}, !.timers = @ \ {el}]
  /\ UNCHANGED outsideBrowser

\* The elements a run can have in the list, and the places of its queue.
Els == { [id |-> id, r |-> r] : id \in 1..MaxSubmits, r \in 1..MaxRenders }

Places == 1..(MaxQueue + MaxSubmits)

NextPage ==
  \/ \E opened \in BOOLEAN : initResumes(opened)
  \/ handleStatusButtonClick
  \/ \E valid \in BOOLEAN : onSubmit(valid)
  \/ stopHandler
  \/ \E outcome \in {"ok", "notok", "rejected"} : pageFetch(outcome)
  \/ \E what \in {"answer", "blank", "reasoning", "error", "other", "done", "failed"} :
       pageRead(what)
  \/ \E i \in Places : \E ok \in BOOLEAN : saveCurrentDivinationResumes(i, ok)
  \/ openHistoryPanel
  \/ \E word \in BOOLEAN : handleSearchInput(word)
  \/ performSearch
  \/ clearSearch
  \/ \E i \in Places : \E ok \in BOOLEAN : \E found \in SUBSET page.store :
       renderHistoryResumes(i, ok, found)
  \/ closeHistoryPanel
  \/ clickOverlay
  \/ \E el \in Els : handleHistoryItemClick(el)
  \/ \E i \in Places : \E ok \in BOOLEAN : handleHistoryItemClickResumes(i, ok)
  \/ \E el \in Els : handleDelete(el)
  \/ \E i \in Places : \E ok \in BOOLEAN : handleDeleteResumes(i, ok)
  \/ \E el \in Els : removeItem(el)

SpecPage == Init /\ [][NextPage]_vars

\* ------------------------------------------------------------------------
\* Specification of one request: many bodies
\* ------------------------------------------------------------------------

\* The integers of the arrays run from -NegNumbers to MaxNumber.
NegNumbers == 2

MaxNumber == 13

HexItems ==
  {JsNumber(2 * n) : n \in (0 - NegNumbers)..MaxNumber} \cup {JsNumber(3), JsNull}

ShortItems == {JsNumber(2), JsNull}

HexArrays ==
  {<<a, b, c>> : a \in HexItems, b \in HexItems, c \in HexItems}
  \cup {<<a, b>> : a \in ShortItems, b \in ShortItems}
  \cup {<<a, b, c, d>> : a \in ShortItems, b \in ShortItems,
                         c \in ShortItems, d \in ShortItems}

\* Plain requests that differ in their numbers only.
HexRequests ==
  { Request("application/json", TRUE, TRUE, n, "q", TRUE, TRUE, TRUE,
            SampleClientTime) : n \in HexArrays }

NumbersSamples ==
  { [isArray |-> FALSE, items |-> <<>>],
    [isArray |-> TRUE, items |-> <<JsNumber(2), JsNumber(4)>>],
    [isArray |-> TRUE, items |-> <<JsNumber(6), JsNumber(10), JsNumber(4)>>],
    [isArray |-> TRUE, items |-> <<JsNumber(3), JsNull, JsNumber(2)>>] }

ClientTimes == {NoClientTime, BadClientTime, SampleClientTime}

\* Requests that differ in every other field.  A body that is not JSON has
\* no fields.
FieldRequests ==
  { Request(a, TRUE, n.isArray, n.items, q, k, e, m, c) :
      a \in Accepts, n \in NumbersSamples, q \in {"undefined", "", "q"},
      k \in BOOLEAN, e \in BOOLEAN, m \in BOOLEAN, c \in ClientTimes }
  \cup { Request(a, FALSE, FALSE, <<>>, "undefined", FALSE, FALSE, FALSE, NoClientTime) :
           a \in Accepts }

onRequestPostOne(r) ==
  /\ pc[r] = "idle"
  /\ \E q \in HexRequests \cup FieldRequests : onRequestPostOf(r, q)

NextOne ==
  \/ onRequestPostOne(1)
  \/ resolveNow(1)
  \/ getYearGanzhi(1)
  \/ getMonthGanzhiBegin(1)
  \/ getMonthGanzhiEnd(1)
  \/ getDayGanzhi(1)
  \/ getHourGanzhi(1)
  \/ CastHexagram(1)
  \/ WriteMeta(1)
  \/ CheckConfig(1)
  \/ aiResponse(1)
  \/ aiErrorText(1)
  \/ aiData(1)
  \/ readChunk(1)
  \/ ReadDone(1)
  \/ ReadFail(1)
  \/ WriterClose(1)
  \/ clientCancel(1)

SpecOne == Init /\ [][NextOne]_vars

\* ------------------------------------------------------------------------
\* Properties of the calendar (SpecCal)
\* ------------------------------------------------------------------------

\* The pillar is a stem of GAN followed by a branch of ZHI.
TwoCharacters(p) ==
  /\ p # NaN
  /\ \E i \in 1..10 : GAN[i] = p.gan
  /\ \E i \in 1..12 : ZHI[i] = p.zhi

\* C1: for every instant dated 1901-01-01..2050-12-31, each pillar computed
\* was looked up with a stem index in 0..9 and a branch index in 0..11, and
\* is a stem followed by a branch.
C1_PillarIndicesInRange ==
  \A r \in Req :
    (pc[r] # "idle" /\ pc[r] # "resolve" /\ InRange(now[r])) =>
      \A i \in 1..Len(fullBazi[r]) :
        /\ calc[r].index[i][1] \in 0..9
        /\ calc[r].index[i][2] \in 0..11
        /\ TwoCharacters(fullBazi[r][i])

\* C1 fails on the dates for which lnDate returns [0, 0, 0] and on no other:
\* with those dates set aside every index is in range.
C1_InRangeOutsideLeapMonths ==
  \A r \in Req :
    (pc[r] # "idle" /\ pc[r] # "resolve" /\ InRange(now[r])
       /\ calc[r].lunar # <<0, 0, 0>>) =>
      \A i \in 1..Len(fullBazi[r]) :
        /\ calc[r].index[i][1] \in 0..9
        /\ calc[r].index[i][2] \in 0..11
        /\ TwoCharacters(fullBazi[r][i])

\* C2: for an instant dated before 1901 or after 2050 no pillar is returned:
\* the computation stops with an error before any pillar is produced.
C2_NoPillarOutsideTable ==
  \A r \in Req :
    (pc[r] # "idle" /\ pc[r] # "resolve" /\ ~InRange(now[r])) =>
      fullBazi[r] = <<>>

\* C3: for every date from 1901-01-01 to 2050-12-31 lnDate returns a lunar
\* date with month in 1..12 and day >= 1, never month 0 or day 0.
C3_LunarDateWellFormed ==
  \A r \in Req :
    (Len(fullBazi[r]) >= 1 /\ InRange(now[r])) =>
      /\ calc[r].lunar[2] \in 1..12
      /\ calc[r].lunar[3] >= 1

\* C4: gzYear returns the stem GAN[(L-4) mod 10] and the branch
\* ZHI[(L-4) mod 12], the residues being the least non-negative ones, for the
\* lunar year L that lnDate gives; lunar year 1984 gives jia zi, and so does
\* the instant 1984-02-02 (day number 30347).
C4_YearPillarFormula ==
  \A r \in Req :
    Len(fullBazi[r]) >= 1 =>
      LET L == calc[r].lunar[1]
          p == fullBazi[r][1]
      IN  /\ p = [gan |-> GAN[((L - 4) % 10) + 1], zhi |-> ZHI[((L - 4) % 12) + 1]]
          /\ L = 1984 => p = [gan |-> "jia", zhi |-> "zi"]
          /\ now[r].dn = 30347 => (L = 1984 /\ p = [gan |-> "jia", zhi |-> "zi"])

\* The formula of the year pillar holds wherever lnDate resolves the lunar
\* date; for the lunar year 0 that lnDate gives inside a leap month both
\* lookups miss the arrays and gzYear returns NaN.
C4_YearPillarOutsideLeapMonths ==
  \A r \in Req :
    Len(fullBazi[r]) >= 1 =>
      LET L == calc[r].lunar[1]
          p == fullBazi[r][1]
      IN  /\ L # 0 => p = [gan |-> GAN[((L - 4) % 10) + 1],
                           zhi |-> ZHI[((L - 4) % 12) + 1]]
          /\ L = 0 => p = NaN
          /\ now[r].dn = 30347 => (L = 1984 /\ p = [gan |-> "jia", zhi |-> "zi"])

\* The pillar of the year number n: GAN[n mod 10] + ZHI[n mod 12].
PillarOfYear(n) == [gan |-> GAN[(n % 10) + 1], zhi |-> ZHI[(n % 12) + 1]]

\* The stem of the first month (yin) of a year whose stem has index g:
\* M = ((g + 1) * 2 + 1) mod 10, looked up as GAN[M - 1].
FirstMonthStem(g) == GAN[(2 * g + 3) % 10]

\* C5: when the odd term governing the instant is lichun and lnDate's month
\* is still 12, the step gzMonth of getMonthGanzhi takes the month stem from
\* the pillar of lunar year - 3, leaves the instance (its cached gzYearValue)
\* as it was, and the year pillar of the same instant stays that of lunar
\* year - 4.
C5_AdvancedYearForMonthOnly ==
  [][\A r \in Req :
       (pc[r] = "gzMonth" /\ pc'[r] = "day") =>
         /\ gz'[r] = gz[r]
         /\ (calc'[r].term = "lichun" /\ calc'[r].lunar[2] = 12) =>
              LET L == calc'[r].lunar[1]
              IN  /\ fullBazi'[r][2].gan =
                       FirstMonthStem(GanIndexOf(PillarOfYear(L - 3).gan))
                  /\ fullBazi'[r][2].zhi = "yin"
                  /\ gz'[r].gzYearValue = PillarOfYear(L - 4)
                  /\ fullBazi'[r][1] = PillarOfYear(L - 4)]_vars

\* C5 witness: gzMonth has run for an instant governed by lichun whose lunar
\* month is 12, and the month stem differs from the one the cached year
\* pillar would give.
C5_Witness ==
  \E r \in Req :
    /\ pc[r] = "day"
    /\ calc[r].term = "lichun"
    /\ calc[r].lunar[2] = 12
    /\ fullBazi[r][2].gan # FirstMonthStem(GanIndexOf(gz[r].gzYearValue.gan))
    /\ gz[r].gzYearValue = fullBazi[r][1]

\* |a - b| <= 0.5 day, compared in units of 1e-5 day and the remainder.
HalfDayApart(a, b) ==
  LET u  == (a[1] - b[1]) * E5 + (a[2] - b[2])
      ds == a[3] - b[3]
  IN  /\ a[1] - b[1] \in (0 - 1)..1
      /\ u < 50000 \/ (u = 50000 /\ ds <= 0)
      /\ u > 0 - 50000 \/ (u = 0 - 50000 /\ ds >= 0)

\* C6: lnJie and nlJie return the name of term i of the date's Gregorian year
\* exactly when that term's Julian day is within 0.5 day of the date's, and
\* "" when no term is; at most one term is that close; on the day of lichun
\* the result is lichun and it is "" on the day before and the day after.
C6_TermWithinHalfDay ==
  \A r \in Req :
    pc[r] = "day" =>
      LET t  == now[r]
          jd == julianDay(t)
          y  == CivilFromDays(t.dn)[1]
          Q  == {i \in 0..23 : HalfDayApart(jd, julianDayOfLnJie(y, i))}
      IN  /\ Cardinality(Q) <= 1
          /\ Q = {} => calc[r].jieQi = ""
          /\ \A i \in Q : calc[r].jieQi = jie[i + 1]
          /\ nlJieOfDay(t.dn) = calc[r].jieQi
          /\ calc[r].jieQi = "lichun" =>
               /\ Q = {2}
               /\ nlJieOfDay(t.dn - 1) = ""
               /\ nlJieOfDay(t.dn + 1) = ""

\* C6 witness: gzMonth has run on 1984-02-04 (day number 30349), the day of
\* lichun, and lnJie returned lichun.
C6_Witness ==
  \E r \in Req :
    /\ pc[r] = "day"
    /\ now[r].dn = 30349
    /\ calc[r].jieQi = "lichun"

\* ------------------------------------------------------------------------
\* Properties of one request (SpecOne)
\* ------------------------------------------------------------------------

IsInteger(v) == v.t = "number" /\ v.twice % 2 = 0

IsPositiveInteger(v) == IsInteger(v) /\ v.twice >= 2

\* n mod 6 with 0 counted as 6.
OneToSix(n) == IF n % 6 = 0 THEN 6 ELSE n % 6

\* C7: for positive integers n1, n2, n3 the result is words[i1] words[i2]
\* words[i3] with i1 = n1 mod 6, i2 = (n1+n2-1) mod 6, i3 = (n1+n2+n3-2) mod 6,
\* 0 counted as 6; every word is of the vocabulary; (1,1,1) gives daan daan
\* daan.  The result is a function of the three numbers alone.
C7_HexagramFormula ==
  \A r \in Req :
    LET n == req[r].numbers.items
    IN  (hexagram[r] # <<>> /\ \A i \in 1..3 : IsPositiveInteger(n[i])) =>
          LET n1 == n[1].twice \div 2
              n2 == n[2].twice \div 2
              n3 == n[3].twice \div 2
          IN  /\ hexagram[r] = << words[OneToSix(n1)],
                                  words[OneToSix(n1 + n2 - 1)],
                                  words[OneToSix(n1 + n2 + n3 - 2)] >>
              /\ \A i \in 1..3 : \E j \in 1..6 : hexagram[r][i] = words[j]
              /\ (n1 = 1 /\ n2 = 1 /\ n3 = 1) =>
                   hexagram[r] = <<"daan", "daan", "daan">>

\* C7 witness: generateHexagram has run on [1, 1, 1] and returned daan daan
\* daan.
C7_Witness ==
  \E r \in Req :
    /\ req[r].numbers.items = <<JsNumber(2), JsNumber(2), JsNumber(2)>>
    /\ hexagram[r] = <<"daan", "daan", "daan">>

\* C8: generateHexagram has run only for requests whose numbers are exactly
\* three integers; any other request was rejected before it.
C8_OnlyThreeIntegersReachHexagram ==
  \A r \in Req :
    hexagram[r] # <<>> =>
      /\ req[r].numbers.isArray
      /\ Len(req[r].numbers.items) = 3
      /\ \A i \in 1..3 : IsInteger(req[r].numbers.items[i])

\* The body is JSON with numbers an array of three elements and question a
\* non-empty string.
WellFormed(q) ==
  /\ q.json
  /\ q.numbers.isArray
  /\ Len(q.numbers.items) = 3
  /\ q.question = "q"

\* C10: a POST with Accept: text/event-stream whose body is not well formed is
\* answered with status 400; no event stream is opened, no event is written
\* and no request goes to the AI endpoint.
C10_BadStreamRequestGets400 ==
  \A r \in Req :
    (pc[r] # "idle" /\ req[r].accept = "text/event-stream" /\ ~WellFormed(req[r])) =>
      /\ resp[r] = Reply(400, "text")
      /\ pc[r] = "done"
      /\ events[r] = <<>>
      /\ aiCalls[r] = 0
      /\ hexagram[r] = <<>>

\* C10 witness: a streaming request whose body is JSON with three numbers
\* and an empty question has been answered with 400.
C10_Witness ==
  \E r \in Req :
    /\ req[r].accept = "text/event-stream"
    /\ req[r].json
    /\ req[r].numbers.isArray
    /\ Len(req[r].numbers.items) = 3
    /\ req[r].question = ""
    /\ resp[r] = Reply(400, "text")

\* ------------------------------------------------------------------------
\* Properties of concurrent requests (Spec)
\* ------------------------------------------------------------------------

\* The instants the handler specification can resolve.
SpecInstants == ServerTimes \cup {resolveClientTime(SampleClientTime, NoDate)}

\* What a call alone returns for each instant: the four pillars in order.
AloneBazi ==
  [t \in SpecInstants |->
     <<gzYear(t), gzMonth(t, gzYear(t)), gzDay(t), gzHour(t)>>]

\* C9: whatever the interleaving of the requests, the pillars a request has
\* got are those a call alone returns for its own instant, its instant is
\* the one its own clientTime resolves to, and its hexagram is the one its
\* own numbers give.
C9_ResultsAsWhenAlone ==
  \A r \in Req :
    /\ (pc[r] # "idle" /\ pc[r] # "resolve" /\ pc[r] # "done") =>
         /\ now[r] \in SpecInstants
         /\ req[r].clientTime.kind = "ok" =>
              now[r] = resolveClientTime(req[r].clientTime, NoDate)
         /\ \A i \in 1..Len(fullBazi[r]) : fullBazi[r][i] = AloneBazi[now[r]][i]
    /\ hexagram[r] # <<>> =>
         /\ Len(fullBazi[r]) = 4
         /\ \A i \in 1..4 : fullBazi[r][i] = AloneBazi[now[r]][i]
         /\ hexagram[r] = generateHexagram(req[r].numbers.items)

\* C9 witness: two requests for different instants have both got their four
\* pillars, and the pillars differ.
C9_Witness ==
  /\ Len(fullBazi[1]) = 4
  /\ Len(fullBazi[2]) = 4
  /\ now[1] # now[2]
  /\ fullBazi[1] # fullBazi[2]
  /\ hexagram[1] # <<>>
  /\ pc[2] = "hexagram"

\* ------------------------------------------------------------------------
\* Properties of the event stream (SpecStream)
\* ------------------------------------------------------------------------

\* The number of events named e among the first n of the sequence written.
RECURSIVE CountOf(_, _, _)
CountOf(written, e, n) ==
  IF n = 0 THEN 0
  ELSE CountOf(written, e, n - 1) + (IF written[n] = e THEN 1 ELSE 0)

\* The step of r is one on which its try block is left by a throw: a
\* configuration value is missing, the fetch rejects, the AI endpoint has
\* answered not ok and its body has been read or has failed to be read, or
\* reading the AI stream fails.
FailureStep(r) ==
  /\ req[r].accept = "text/event-stream"
  /\ \/ pc[r] = "config" /\ pc'[r] # "fetch"
     \/ pc[r] = "fetch" /\ pc'[r] \notin {"read", "errText"}
     \/ pc[r] = "errText"
     \/ pc[r] = "read" /\ pc'[r] # "done"

\* The meta event is written at most once and is the first event whenever a
\* reasoning, answer or title event has been written; every failing step
\* writes the error event as the last one and hands the task to the step
\* that closes the stream, which writes nothing more; and a stream whose
\* task is over is closed.
MetaFirstErrorOnFailure(r) ==
  /\ CountOf(events'[r], "meta", Len(events'[r])) <= 1
  /\ \A i \in 1..Len(events'[r]) :
       events'[r][i] \in {"reasoning", "answer", "title"} =>
         (i > 1 /\ events'[r][1] = "meta")
  /\ (FailureStep(r) /\ pc'[r] # pc[r]) =>
       /\ events'[r] = Append(events[r], "error")
       /\ pc'[r] = "closing"
  /\ (pc[r] = "closing" /\ pc'[r] # pc[r]) =>
       /\ events'[r] = events[r]
       /\ pc'[r] = "done"
       /\ resp'[r].closed
  /\ (pc'[r] = "done" /\ resp'[r].kind = "stream") => resp'[r].closed

\* C11: in every SSE response meta is written at most once and before every
\* reasoning, answer and title event; a failure at any step of the task
\* writes an error event and the stream is closed after it; and every
\* stream that was opened is eventually closed, the AI response being one
\* that ends.
C11_MetaFirstAndStreamClosed ==
  /\ [][\A r \in Req : MetaFirstErrorOnFailure(r)]_vars
  /\ \A r \in Req : (resp[r].kind = "stream") ~> resp[r].closed

\* The same for the streams whose client keeps reading: while the body is
\* not cancelled every failing step writes the error event, and every
\* stream is eventually closed or cancelled.
C11_HoldsWhileClientReads ==
  /\ [][\A r \in Req : ~resp'[r].cancelled => MetaFirstErrorOnFailure(r)]_vars
  /\ \A r \in Req : (resp[r].kind = "stream") ~> (resp[r].closed \/ resp[r].cancelled)

\* A stream whose client has cancelled the body has ended with a rejection
\* that nothing handles: no error event, the writer not closed.
C11_CancelledStreamThrew ==
  \E r \in Req :
    /\ resp[r].kind = "stream"
    /\ resp[r].cancelled
    /\ pc[r] = "threw"
    /\ ~resp[r].closed
    /\ events[r] = <<"meta">>


\* ------------------------------------------------------------------------
\* Properties of the AI configuration (Spec)
\* ------------------------------------------------------------------------

\* The environment of a deployment set up as the README says: API_KEY,
\* ENDPOINT and MODEL all have a value.
Env == [API_KEY |-> TRUE, ENDPOINT |-> TRUE, MODEL |-> TRUE]

\* C12: a value the request does not give is taken from the environment, so
\* a well-formed request whose API key is available from the request or from
\* the environment is not failed for its configuration: once past the
\* configuration step it has been sent to the AI endpoint.
C12_ServedWithEnvironmentValues ==
  \A r \in Req :
    ( /\ pc[r] \in {"fetch", "errText", "json", "read", "closing", "done", "threw"}
      /\ req[r].json
      /\ PassesValidation(req[r])
      /\ (req[r].apiKey \/ Env.API_KEY)
      /\ (req[r].endpoint \/ Env.ENDPOINT)
      /\ (req[r].model \/ Env.MODEL) )
    => aiCalls[r] = 1


\* ------------------------------------------------------------------------
\* Properties of resolveClientTime (Spec)
\* ------------------------------------------------------------------------

\* resolveClientTime of lib/time.js: "new Date(clientTime.ts +
\* clientTime.tz_offset * 60_000)", and new Date() for any other argument.
resolveClientTimeLib(clientTime, serverNow) ==
  IF clientTime.kind = "ok"
  THEN DateOfMinutes(clientTime.tsMin + clientTime.tz_offset)
  ELSE serverNow

\* C13: for a clientTime whose ts and tz_offset are finite numbers the
\* instant resolved is ts - tz_offset * 60000 ms, and resolveClientTime of
\* lib/time.js returns that same instant; for any other clientTime both
\* return the server's time.
C13_EveryResolveClientTimeAgrees ==
  \A r \in Req :
    (pc[r] \notin {"idle", "resolve"} /\ req[r].json /\ PassesValidation(req[r])) =>
      /\ req[r].clientTime.kind = "ok" =>
           now[r] = DateOfMinutes(req[r].clientTime.tsMin - req[r].clientTime.tz_offset)
      /\ \E serverNow \in ServerTimes :
           now[r] = resolveClientTimeLib(req[r].clientTime, serverNow)


\* ------------------------------------------------------------------------
\* Properties of the service worker's cache (SpecWorker)
\* ------------------------------------------------------------------------

\* C14: every entry the fetch handler has written into the cache comes from
\* a network response whose status is exactly 200.
C14_OnlyStatus200Stored ==
  \A u \in Urls : cache[u].by = "fetch" => cache[u].status = 200


\* ------------------------------------------------------------------------
\* Properties of the month, day and hour pillars (SpecCal)
\* ------------------------------------------------------------------------

\* C15 as amended: for every hour h in 0..23 gzHour uses the branch index
\* round(h/2 + 0.1) mod 12, which is floor((h + 1) / 2) mod 12: the hours
\* 23 and 0 have branch 0, the hours 1 and 2 branch 1, and so on.
C15_HourBranchRounds ==
  \A r \in Req :
    (Len(calc[r].index) = 4 /\ now[r].hour \in 0..23) =>
      calc[r].index[4][2] = ((now[r].hour + 1) \div 2) % 12

\* C15 as stated: for every hour h in 0..23 gzHour uses the branch index
\* floor(h/2 + 0.1) mod 12, which is floor(h / 2).
C15_HourBranchFloors ==
  \A r \in Req :
    (Len(calc[r].index) = 4 /\ now[r].hour \in 0..23) =>
      calc[r].index[4][2] = ((5 * now[r].hour + 1) \div 10) % 12

\* C15 witness: the hour pillar of an instant at 23 o'clock has been computed
\* with branch index 0, and floor(23/2 + 0.1) is 11.
C15_Witness ==
  \E r \in Req :
    /\ Len(calc[r].index) = 4
    /\ now[r].hour = 23
    /\ calc[r].index[4][2] = 0
    /\ fullBazi[r][4].zhi = "zi"

\* The month index of the odd term that set the month, 0 when there is none.
MonthIndexOf(term) == IF term = "" THEN 0 ELSE jieQiMonth[term][1]

\* The term is lichun while lnDate's month is 12: gzMonth advances the year.
MonthYearRolled(r) ==
  MonthIndexOf(calc[r].term) = 0 /\ calc[r].term # "" /\ calc[r].lunar[2] = 12

\* The 0-based index in GAN of the stem of the year pillar gzMonth works
\* with: that of the year pillar, advanced by one when the year is rolled,
\* and -1 (what indexOf gives) when the year pillar is NaN.
MonthYearStem(r) ==
  IF MonthYearRolled(r) THEN (calc[r].index[1][1] + 1) % 10
  ELSE IF fullBazi[r][1] = NaN THEN 0 - 1
  ELSE calc[r].index[1][1]

\* The stem index as the year pillar defines it: adjustedYear mod 10, the
\* year advanced by one when it is rolled.
AdjustedYearStem(r) ==
  IF MonthYearRolled(r) THEN (calc[r].lunar[1] - 3) % 10
  ELSE (calc[r].lunar[1] - 4) % 10

\* n mod 10 with 0 replaced by 10.
OneToTen(n) == IF n % 10 = 0 THEN 10 ELSE n % 10

\* C16 as amended: gzMonth's stem number M, used as GAN[M - 1], is
\* ((yearStemIndex + 1) * 2 + monthIndex + 1) mod 10 with 0 replaced by 10,
\* yearStemIndex being the 0-based index in GAN of the stem of the (possibly
\* advanced) year pillar, -1 when the year pillar is NaN, and monthIndex the
\* index 0..11 of the governing odd term.  It is stated of every month
\* pillar gzMonth has computed, those of the dates inside a leap month
\* included.
C16_MonthStemFromStemNumber ==
  \A r \in Req :
    Len(calc[r].index) >= 2 =>
      /\ calc[r].index[2][1] + 1 =
           OneToTen((MonthYearStem(r) + 1) * 2 + MonthIndexOf(calc[r].term) + 1)
      /\ fullBazi[r][2].gan = GAN[calc[r].index[2][1] + 1]

\* C16 as stated: the stem number is (yearStemIndex * 2 + monthIndex + 1)
\* mod 10 with 0 replaced by 10, yearStemIndex being adjustedYear mod 10.
C16_MonthStemFromStemIndex ==
  \A r \in Req :
    Len(calc[r].index) >= 2 =>
      calc[r].index[2][1] + 1 =
        OneToTen(AdjustedYearStem(r) * 2 + MonthIndexOf(calc[r].term) + 1)

\* C16 witness: a month pillar has been computed with the advanced year
\* pillar, the term being lichun in lunar month 12.
C16_Witness ==
  \E r \in Req :
    /\ Len(calc[r].index) >= 2
    /\ calc[r].term = "lichun"
    /\ MonthYearStem(r) # calc[r].index[1][1]
    /\ fullBazi[r][2].gan = GAN[calc[r].index[2][1] + 1]

\* A month pillar has been computed inside a leap month, where lnDate gives
\* <<0, 0, 0>>, the year pillar is NaN and the stem number is monthIndex + 1.
C16_LeapMonthCase ==
  \E r \in Req :
    /\ Len(calc[r].index) >= 2
    /\ calc[r].lunar = <<0, 0, 0>>
    /\ fullBazi[r][1] = NaN
    /\ calc[r].index[2][1] + 1 = OneToTen(MonthIndexOf(calc[r].term) + 1)

\* Day number of 2023-03-22, the first day of the leap second month of lunar
\* year 2023: 122 years with 30 leap days, and 80 days of 2023.
LeapMonth2023 == 122 * 365 + 30 + 80

\* C17: a date inside the leap month m of lunar year Y gets the lunar date
\* <<Y, m, remainder + 1>>; for the 29 days of the leap second month of 2023
\* that is <<2023, 2, 1>> to <<2023, 2, 29>>.
C17_LeapMonthDateResolved ==
  \A r \in Req :
    (Len(fullBazi[r]) >= 1 /\ now[r].dn \in LeapMonth2023..(LeapMonth2023 + 28)) =>
      calc[r].lunar = <<2023, 2, now[r].dn - LeapMonth2023 + 1>>

\* C18: gzDay looks up the stem index (4C + floor(C/4) + 5y + floor(y/4) +
\* floor(3(M+1)/5) + d - 3 - 1) mod 10 and the branch index (8C + floor(C/4)
\* + 5y + floor(y/4) + floor(3(M+1)/5) + d + 7 + i - 1) mod 12, where C is
\* floor(year/100), y is year mod 100 (one less in January and February), M
\* the month (12 more in January and February), d the day of the month and
\* i is 0 in odd months and 6 in even months.
C18_DayPillarFormula ==
  \A r \in Req :
    (Len(calc[r].index) >= 3 /\ InRange(now[r])) =>
      LET date  == CivilFromDays(now[r].dn)
          C     == date[1] \div 100
          y     == (date[1] % 100) - (IF date[2] <= 2 THEN 1 ELSE 0)
          M     == date[2] + (IF date[2] <= 2 THEN 12 ELSE 0)
          i     == IF date[2] % 2 = 1 THEN 0 ELSE 6
          base  == C \div 4 + 5 * y + FloorDiv(y, 4) + (3 * (M + 1)) \div 5 + date[3]
      IN  /\ calc[r].index[3] = <<(4 * C + base - 3 - 1) % 10,
                                  (8 * C + base + 7 + i - 1) % 12>>
          /\ fullBazi[r][3] = [gan |-> GAN[calc[r].index[3][1] + 1],
                               zhi |-> ZHI[calc[r].index[3][2] + 1]]

\* C18 witness: the day pillar of a day of January 2000 has been computed:
\* C is 20, y is -1 and M is 13.
C18_Witness ==
  \E r \in Req :
    /\ Len(calc[r].index) >= 3
    /\ InRange(now[r])
    /\ CivilFromDays(now[r].dn)[1] = 2000
    /\ CivilFromDays(now[r].dn)[2] = 1
    /\ fullBazi[r][3] = Pillar(calc[r].index[3][1], calc[r].index[3][2])

\* C19: with s the day stem number (1..10) and o the hour branch ordinal
\* (1..12), gzHour's stem number is ((2r - 1) + o - 1) mod 10 with 0 replaced
\* by 10, where r is s mod 5 with 0 replaced by 5, and the stem of the hour
\* pillar is GAN[stem number - 1].
C19_HourStemFormula ==
  \A r \in Req :
    (Len(calc[r].index) = 4 /\ InRange(now[r])) =>
      LET s  == calc[r].index[3][1] + 1
          o  == calc[r].index[4][2] + 1
          rr == IF s % 5 = 0 THEN 5 ELSE s % 5
      IN  /\ s \in 1..10
          /\ o \in 1..12
          /\ calc[r].index[4][1] + 1 = OneToTen((2 * rr - 1) + o - 1)
          /\ fullBazi[r][4].gan = GAN[calc[r].index[4][1] + 1]

\* C19 witness: an hour pillar has been computed for a day whose stem number
\* is 5 or 10 and an hour for which the stem number is the 10 that stands for
\* the remainder 0.
C19_Witness ==
  \E r \in Req :
    /\ Len(calc[r].index) = 4
    /\ InRange(now[r])
    /\ calc[r].index[3][1] \in {4, 9}
    /\ calc[r].index[4][1] = 9
    /\ calc[r].index[4][2] = 1

\* The odd term met first when going back from the day before dn, at most 40
\* days: <<term, days gone back>>, <<"", 41>> when there is none.
RECURSIVE LastOddTerm(_, _)
LastOddTerm(dn, k) ==
  IF k > 40 THEN <<"", k>>
  ELSE IF nlJieOfDay(dn - k) \in jieQiOdd
       THEN <<nlJieOfDay(dn - k), k>>
       ELSE LastOddTerm(dn, k + 1)

\* C20: gzMonth takes the month index from the odd term of the instant's own
\* day when that day is an odd-term day, and otherwise from the most recent
\* odd-term day, found within 40 days back; the month branch is the branch
\* of that index in the cycle that starts at yin: ZHI[(index + 2) mod 12].
C20_MonthFromGoverningTerm ==
  \A r \in Req :
    (Len(calc[r].index) >= 2 /\ InRange(now[r])) =>
      /\ calc[r].term \in jieQiOdd
      /\ IF calc[r].jieQi \in jieQiOdd
         THEN calc[r].term = calc[r].jieQi
         ELSE calc[r].term = LastOddTerm(now[r].dn, 1)[1]
      /\ calc[r].index[2][2] = (MonthIndexOf(calc[r].term) + 2) % 12
      /\ fullBazi[r][2].zhi = ZHI[((MonthIndexOf(calc[r].term) + 2) % 12) + 1]

\* C20 witness: a month pillar has been computed on a day that is not an
\* odd-term day and whose odd term lies 28 days back: it is xiaohan, the last
\* of the cycle, and the branch is chou.
C20_Witness ==
  \E r \in Req :
    /\ Len(calc[r].index) >= 2
    /\ InRange(now[r])
    /\ calc[r].jieQi \notin jieQiOdd
    /\ LastOddTerm(now[r].dn, 1) = <<"xiaohan", 28>>
    /\ fullBazi[r][2].zhi = "chou"


\* ------------------------------------------------------------------------
\* Properties of the first days, the back-scan and the pillars (SpecCal)
\* ------------------------------------------------------------------------

\* C22: for a date fewer than 49 days after 1901-01-01 lnDate returns lunar
\* year 1900, month 11 and day 11 + offset below offset 19, month 12 and day
\* offset - 18 from there on; offset 49 gives lunar 1901, month 1, day 1; so
\* the days before and after the two changes of month are 1900-11-29,
\* 1900-12-01 and 1900-12-30, 1901-01-01.
C22_FirstDaysOfTable ==
  \A r \in Req :
    (Len(fullBazi[r]) >= 1 /\ now[r].dn \in 0..49) =>
      LET offset == now[r].dn
      IN  /\ offset < 19 => calc[r].lunar = <<1900, 11, 11 + offset>>
          /\ (offset >= 19 /\ offset < 49) => calc[r].lunar = <<1900, 12, offset - 18>>
          /\ offset = 18 => calc[r].lunar = <<1900, 11, 29>>
          /\ offset = 19 => calc[r].lunar = <<1900, 12, 1>>
          /\ offset = 48 => calc[r].lunar = <<1900, 12, 30>>
          /\ offset = 49 => calc[r].lunar = <<1901, 1, 1>>

\* C22 witness: the lunar date of 1901-02-19, offset 49, has been computed
\* by the walk over the table and is the first day of lunar 1901.
C22_Witness ==
  \E r \in Req :
    /\ Len(fullBazi[r]) >= 1
    /\ now[r].dn = 49
    /\ calc[r].lunar = <<1901, 1, 1>>

\* C28: for every date of the table that is not an odd-term day the loop
\* back of gzMonth meets an odd-term day within its 40 steps, so the month is
\* never left at index 0 for lack of a term.
C28_BackScanMeetsTerm ==
  \A r \in Req :
    (Len(calc[r].index) >= 2 /\ InRange(now[r]) /\ calc[r].jieQi \notin jieQiOdd) =>
      /\ calc[r].term # ""
      /\ LastOddTerm(now[r].dn, 1)[2] <= 40
      /\ LastOddTerm(now[r].dn, 1)[1] = calc[r].term

\* C28 witness: the month of a day of January has been set by daxue, an odd
\* term of the December before, 30 days back.
C28_Witness ==
  \E r \in Req :
    /\ Len(calc[r].index) >= 2
    /\ InRange(now[r])
    /\ calc[r].jieQi \notin jieQiOdd
    /\ calc[r].term = "daxue"
    /\ CivilFromDays(now[r].dn)[2] = 1
    /\ LastOddTerm(now[r].dn, 1)[2] >= 28

\* The pair of a stem index and a branch index is one of the 60 of the cycle.
ValidPair(ix) ==
  /\ ix[1] \in 0..9
  /\ ix[2] \in 0..11
  /\ ix[1] % 2 = ix[2] % 2

\* C29: every pillar produced for an instant of the table is one of the 60
\* sexagenary pairs: its stem index and its branch index have the same
\* parity, and the pillar is the stem and the branch of these indices.
C29_PillarsAreSexagenaryPairs ==
  \A r \in Req :
    (pc[r] # "idle" /\ pc[r] # "resolve" /\ InRange(now[r])) =>
      \A i \in 1..Len(fullBazi[r]) :
        /\ ValidPair(calc[r].index[i])
        /\ fullBazi[r][i] = [gan |-> GAN[calc[r].index[i][1] + 1],
                             zhi |-> ZHI[calc[r].index[i][2] + 1]]

\* C29 holds of every date of the table on which lnDate resolves the lunar
\* date.
C29_SexagenaryPairsOutsideLeapMonths ==
  \A r \in Req :
    (pc[r] # "idle" /\ pc[r] # "resolve" /\ InRange(now[r])
       /\ calc[r].lunar # <<0, 0, 0>>) =>
      \A i \in 1..Len(fullBazi[r]) : ValidPair(calc[r].index[i])


\* ------------------------------------------------------------------------
\* Properties of the lunar tables and of the loops over them (SpecTables)
\* ------------------------------------------------------------------------

\* Bit k of the word, counted from 0 at the low end.
BitOf(word, k) == (word \div (2 ^ k)) % 2

\* C21: lunarMonthDays(year, month) reads the length of the ordinary month
\* from bit 16 - month of the year's word of gLunarMonthDay, one position
\* lower when the year has a leap month and month comes after it: 30 when
\* the bit is set, 29 otherwise; the leap length is 0 unless month is the
\* year's leap month, and is then read from the bit one position further
\* down.
C21_MonthDaysFromPackedBits ==
  (probe.fn = "lunarMonthDays") =>
    LET year  == probe.args[1]
        month == probe.args[2]
        word  == gLunarMonthDay[year - START_YEAR + 1]
        leap  == getLeapMonth(year)
        pos   == IF leap # 0 /\ month > leap THEN 15 - month ELSE 16 - month
    IN  /\ probe.out[2] = (IF BitOf(word, pos) = 1 THEN 30 ELSE 29)
        /\ probe.out[1] = (IF month # leap THEN 0
                           ELSE IF BitOf(word, pos - 1) = 1 THEN 30 ELSE 29)

\* C21 witness: a month after the leap month of its year has been read, in
\* a year where the bit of the lowered position and the bit above it differ,
\* and so has a leap month of 30 days.
C21_Witness ==
  /\ probe.fn = "lunarMonthDays"
  /\ \/ /\ getLeapMonth(probe.args[1]) # 0
        /\ probe.args[2] > getLeapMonth(probe.args[1])
        /\ BitOf(gLunarMonthDay[probe.args[1] - START_YEAR + 1], 15 - probe.args[2])
             # BitOf(gLunarMonthDay[probe.args[1] - START_YEAR + 1], 16 - probe.args[2])
        /\ probe.out = <<0, 30>>
     \/ /\ probe.args[2] = getLeapMonth(probe.args[1])
        /\ probe.out = <<30, 29>>

\* C23: for every date of the table the loops behind the four pillars end:
\* the year loop of lnDate after at most 150 iterations, in a year of the
\* table or the one before it, its month loop after at most 12, and the loop
\* back of gzMonth after at most 40 days, with an odd term in hand.
C23_LoopsEndWithinBounds ==
  (probe.fn = "loops") =>
    /\ probe.out[1] \in 0..150
    /\ probe.out[2] \in (START_YEAR - 1)..(START_YEAR + Len(gLunarMonthDay) - 1)
    /\ probe.out[3] \in 0..12
    /\ probe.out[4] \in 0..40
    /\ probe.out[5] \in jieQiOdd

\* C23 witness: a date of lunar 2050 whose year loop ran 149 times, whose
\* month loop ran 10 times and whose loop back examined 20 days or more.
C23_Witness ==
  /\ probe.fn = "loops"
  /\ probe.out[1] = 149
  /\ probe.out[3] >= 10
  /\ probe.out[4] >= 20

\* C30: for every lunar year 1901..2050 getLeapMonth is in 0..12, and
\* lunarYearDays is 353, 354 or 355 when the year has no leap month and 383,
\* 384 or 385 when it has one.
C30_YearLengths ==
  (probe.fn = "lunarYearDays") =>
    /\ probe.out[1] \in 0..12
    /\ probe.out[1] = 0 => probe.out[2] \in {353, 354, 355}
    /\ probe.out[1] # 0 => probe.out[2] \in {383, 384, 385}

\* C30 witness: a year with a leap month and 385 days has been summed.
C30_Witness ==
  /\ probe.fn = "lunarYearDays"
  /\ probe.out[1] \in 1..12
  /\ probe.out[2] = 385


\* ------------------------------------------------------------------------
\* Properties of consecutive days (SpecCal)
\* ------------------------------------------------------------------------

\* The day before the date of t.
Yesterday(t) == [dn |-> t.dn - 1, hour |-> t.hour]

\* The pillar one position after pillar p in the cycle of 60.
NextInCycle(p) == Pillar((GanIndexOf(p.gan) + 1) % 10, (ZhiIndexOf(p.zhi) + 1) % 12)

\* C24: for two consecutive dates of 1901-01-01 .. 2050-12-31 the day pillar
\* of the second is one position after the day pillar of the first: its stem
\* index is the first's plus 1 modulo 10, its branch index the first's plus
\* 1 modulo 12.
C24_DayPillarAdvancesByOne ==
  \A r \in Req :
    (Len(fullBazi[r]) >= 3 /\ now[r].dn \in 1..LastDay) =>
      LET before == gzDayIndex(Yesterday(now[r]))
      IN  /\ calc[r].index[3] = <<(before[1] + 1) % 10, (before[2] + 1) % 12>>
          /\ fullBazi[r][3] = NextInCycle(gzDay(Yesterday(now[r])))

\* C24 witness: the day pillar of 2000-01-01 has been computed, wuwu, one
\* position after the dingsi of 1999-12-31 across the change of century.
C24_Witness ==
  \E r \in Req :
    /\ Len(fullBazi[r]) >= 3
    /\ CivilFromDays(now[r].dn) = <<2000, 1, 1>>
    /\ fullBazi[r][3] = [gan |-> "wu4", zhi |-> "wu3"]

\* The month pillar of a day against the one of the day before: one position
\* on when the day is an odd-term day, the same otherwise.
MonthStep(today, before, jieQi) ==
  IF IsOddJie(jieQi) THEN today = NextInCycle(before) ELSE today = before

\* C25: over consecutive days of the table the month pillar changes only on
\* an odd-term day, and there it advances by one position in the cycle; so
\* it does not change on a lunar New Year's day that comes before lichun.
C25_MonthPillarChangesOnTermDays ==
  \A r \in Req :
    (pc[r] = "day" /\ now[r].dn \in 1..LastDay) =>
      MonthStep(fullBazi[r][2],
                gzMonth(Yesterday(now[r]), gzYear(Yesterday(now[r]))),
                calc[r].jieQi)


\* The odd term that governs day dn: its own, or the last one before it.
GoverningTerm(dn) ==
  IF IsOddJie(nlJieOfDay(dn)) THEN nlJieOfDay(dn) ELSE LastOddTerm(dn, 1)[1]

\* The days whose month pillar gzMonth derives from a year stem that is not
\* the one of the solar year: the days inside a leap month, where lnDate
\* returns <<0, 0, 0>>, and the days of a first lunar month that come before
\* lichun, where the year pillar is already the one of the new lunar year.
OffYearStem(lunar, term) ==
  \/ lunar = <<0, 0, 0>>
  \/ lunar[2] = 1 /\ term = "xiaohan"

\* C25 holds of every pair of consecutive days neither of which is such a
\* day.
C25_ChangesOnTermDaysElsewhere ==
  \A r \in Req :
    (/\ pc[r] = "day"
     /\ now[r].dn \in 1..LastDay
     /\ ~OffYearStem(calc[r].lunar, calc[r].term)
     /\ ~OffYearStem(lnDate(Yesterday(now[r])), GoverningTerm(now[r].dn - 1))) =>
      MonthStep(fullBazi[r][2],
                gzMonth(Yesterday(now[r]), gzYear(Yesterday(now[r]))),
                calc[r].jieQi)


\* ------------------------------------------------------------------------
\* Properties of the SSE response with a title (SpecTitled)
\* ------------------------------------------------------------------------

\* C26: in every interleaving of the answer task and the title task, the
\* error event is the last event written to the stream, and no write is
\* attempted on the writer after close().
C26_ErrorLastAndNoWriteAfterClose ==
  \A i \in 1..Len(sse.log) :
    /\ sse.log[i].ev = "error" => i = Len(sse.log)
    /\ sse.log[i].ok

\* C26 holds of src/index.js, which calls generateTitle after the answers.
C26_HoldsWhenTitleFollowsAnswers ==
  (sse.variant = "index.js") =>
    \A i \in 1..Len(sse.log) :
      /\ sse.log[i].ev = "error" => i = Len(sse.log)
      /\ sse.log[i].ok


\* ------------------------------------------------------------------------
\* Properties of the page (SpecPage)
\* ------------------------------------------------------------------------

\* C27: a divination submitted while saving is switched off is not added to
\* the history store, whatever the user does with the history panel while
\* the response streams; and an aborted or failed divination is never added.
C27_SavedOnlyWhenEnabledAtSubmit ==
  \A rec \in page.store :
    /\ rec.enabledAtSubmit
    /\ rec.outcome \notin {"aborted", "failed"}

\* The second half of C27 holds: only a divination whose stream ended with
\* done is added.
C27_AbortedOrFailedNeverAdded ==
  \A rec \in page.store : rec.outcome = "done"

\* A divination whose stream carried an error event after an answer is
\* added like any other.
C27_NoneSavedAfterErrorEvent ==
  \A rec \in page.store : ~rec.errorEvent

====
